---- MODULE Spec2Model ----
(***************************************************************************)
(* QR code generator: record lifecycle and protection subsystem.           *)
(*                                                                         *)
(* The record store (the QrItems and QrScans tables), the tracking         *)
(* handlers (the trackQr GraphQL handler / useQrTracking hook, and the     *)
(* HTTP handlers that use DynamoDB commands), the generateQr hook with the *)
(* uploadQrImage function, and the in-process RateLimiter.                 *)
(***************************************************************************)
EXTENDS Integers, Sequences, FiniteSets, TLC

(***************************************************************************)
(* Bounds of the model.                                                    *)
(***************************************************************************)
MaxTrackers == 3
MaxClock == 1
MaxGens == 2
LimWindow == 1
LimMax == 1
MaxLimClock == 3
MaxManagers == 2
MaxTtl == 1
MaxCacheClock == 2
MaxServes == 2
MaxRequests == 3
MaxClients == 2

Trackers == 1..MaxTrackers

\* Ids (ulids) are numbered in the order they are handed out; 0 stands for
\* the empty id.
NoId == 0
\* Two ids are enough for tracking: one with a record, one without.
ExistingId == 1
UnknownId == 2
MissingId == NoId
TrackIds == {ExistingId, UnknownId, MissingId}

NoItem == [absent |-> TRUE]
NoTime == -1
NoOwner == "anonymous"
SchemeHttps == <<"https", ":", "//">>

\* `qr-images/${qrId}_${timestamp}.png`; NoKey is the empty s3Key.
S3Key(id, timestamp) == [qrId |-> id, timestamp |-> timestamp]
NoKey == S3Key(NoId, NoTime)

VARIABLES
    clock,      \* Date.now() / new Date(), advanced by Tick
    qrItems,    \* the QrItems table: id -> item or NoItem
    qrScans,    \* the QrScans table: the set of rows (each has its own key)
    tpc,        \* each track call's position
    tkind,      \* which handler serves the call: "graphql" or "http"
    tid,        \* the call's qrId argument / path parameter
    titem,      \* what the call keeps of the item it read (qrItem)
    tnow,       \* the call's `now`
    tscan,      \* TRUE once the call's scan row is in QrScans
    tinc,       \* TRUE once the call's counter update is applied
    initCount,  \* scanCount of the existing record before any call
    gpc,        \* each generateQr call's position
    gowner,     \* the signed-in user of the call (its userPool identity)
    gurl,       \* the call's normalizedUrl
    gqrid,      \* the call's new id (ulid())
    gkey,       \* uploadData.s3Key
    gresult,    \* the id in qrResult once the call has set it
    nextUlid,   \* ulid(): ids are handed out in increasing order
    s3Objects,  \* the keys of the objects in the bucket
    production, \* process.env.NODE_ENV === "production" in uploadQrImage
    limStore,   \* each RateLimiter's store: identifier -> entry or NoEntry
    limResult,  \* what a check has just returned, and to whom
    winEnd,     \* history: the end of the identifier's current window
    winCalls,   \* history: the checks made in the current window
    winDenied,  \* history: a check was denied since the last reset
    mpc,        \* each management request's position
    mcaller,    \* the request's identity (event.identity / the signed-in user)
    mid,        \* the request's id argument
    mresult,    \* how the request ended, and the ids a list returned
    guardResponse, \* what withRateLimit has just answered
    cache,      \* a MemoryCache's map: key -> entry or NoCacheEntry
    cacheResult,   \* what the last cache operation returned
    cacheAsked, \* history: the ttl each key's last set was called with
    spc,        \* each image / download request's position
    skind,      \* the endpoint that serves the request
    sid,        \* the request's id path parameter
    sitem,      \* the request's qrItem
    sresult,    \* the status the request was answered with
    rpc,        \* each guarded request's position in withRateLimit
    rlim,       \* the limiter that guards the request
    rident,     \* the request's identifier (getClientIdentifier)
    rres,       \* `result`: what check returned to the request
    rwin,       \* history: the end of the window the request was checked in
    wpc,        \* each client request's position in the middleware
    wreq,       \* the Request: authorization header, address, method, URL
    wident,     \* what getClientIdentifier returned for the request
    wresp       \* the response withCache returned to the request

trackVars == <<tpc, tkind, tid, titem, tnow, tscan, tinc, initCount>>
genVars == <<gpc, gowner, gurl, gqrid, gkey, gresult, nextUlid, s3Objects, production>>
storeVars == <<qrItems, qrScans>>
limVars == <<limStore, limResult, winEnd, winCalls, winDenied>>
manageVars == <<mpc, mcaller, mid, mresult>>
guardVars == <<guardResponse>>
cacheVars == <<cache, cacheResult, cacheAsked>>
serveVars == <<spc, skind, sid, sitem, sresult>>
flightVars == <<rpc, rlim, rident, rres, rwin>>
callerVars == <<wpc, wreq, wident, wresp>>
appVars == <<manageVars, guardVars, cacheVars, serveVars, flightVars, callerVars>>
vars == <<clock, qrItems, qrScans, trackVars, genVars, limVars, appVars>>

(***************************************************************************)
(* The store.                                                              *)
(***************************************************************************)
\* A QrItems row as generateQr completes it.
Item(url, key, owner, created, count, last) ==
    [absent |-> FALSE, targetUrl |-> url, s3Key |-> key, owner |-> owner,
     createdAt |-> created, scanCount |-> count, lastScanAt |-> last]

\* `qrItem.scanCount || 0`
ScanCountOrZero(item) ==
    IF item = NoItem \/ item.scanCount = NoTime THEN 0 ELSE item.scanCount

\* A plausible slip: the update is sent with the creation time refreshed.
GqlUpdateCounters_Touch(items, id, count, now) ==
    IF items[id] = NoItem THEN items
    ELSE [items EXCEPT ![id].scanCount = count, ![id].lastScanAt = now,
                       ![id].createdAt = now]

\* client.models.QrItems.update({id, scanCount, lastScanAt}): writes the
\* value the caller computed; an update of a missing item changes nothing.
GqlUpdateCounters(items, id, count, now) ==
    IF items[id] = NoItem THEN items
    ELSE [items EXCEPT ![id].scanCount = count, ![id].lastScanAt = now]

\* A plausible slip: the update expression sets the counter instead of adding.
HttpUpdateCounters_Set(items, id, now) ==
    IF items[id] = NoItem
    THEN [items EXCEPT ![id] = Item(<<>>, NoKey, NoOwner, NoTime, 1, now)]
    ELSE [items EXCEPT ![id].scanCount = 1, ![id].lastScanAt = now]

\* UpdateCommand "SET scanCount = if_not_exists(scanCount, :zero) + :one,
\* lastScanAt = :now": evaluated by the store on the stored value; without a
\* condition expression it creates the item when the key is missing.
HttpUpdateCounters(items, id, now) ==
    IF items[id] = NoItem
    THEN [items EXCEPT ![id] = Item(<<>>, NoKey, NoOwner, NoTime, 1, now)]
    ELSE [items EXCEPT ![id].scanCount = ScanCountOrZero(items[id]) + 1,
                       ![id].lastScanAt = now]

\* What a handler uses of the item it read: trackQr reads qrItem.scanCount and
\* qrItem.targetUrl, the HTTP handlers read qrItem.targetUrl only.
ReadItem(kind, item) ==
    IF item = NoItem THEN NoItem
    ELSE [absent |-> FALSE, targetUrl |-> item.targetUrl,
          scanCount |-> IF kind = "graphql" THEN item.scanCount ELSE NoTime]

ScanRow(id, now, t) == [qrId |-> id, scanAt |-> now, call |-> t]

(***************************************************************************)
(* Tracking.                                                               *)
(***************************************************************************)
\* A plausible slip: the handler does not look at what the read returned.
GetOutcome_NoCheck(id, items) ==
    IF id = MissingId THEN "badrequest" ELSE "scan"

\* How a handler goes on after its first lines: `if (!qrId)` / `if (!id)`
\* rejects a missing id, then the item is read and `if (!qrItemResult.data)`
\* / `if (!getResult.Item)` ends the call with "QR code not found" / 404.
GetOutcome(id, items) ==
    IF id = MissingId THEN "badrequest"
    ELSE IF items[id] = NoItem THEN "notfound"
    ELSE "scan"

\* The start of a track call, up to its first await after the read.
TrackGet(t, kind, id) ==
    /\ tpc[t] = "idle"
    /\ \A u \in Trackers : u < t => tpc[u] # "idle"   \* calls numbered by arrival
    /\ tkind' = [tkind EXCEPT ![t] = kind]
    /\ tid' = [tid EXCEPT ![t] = id]
    /\ tpc' = [tpc EXCEPT ![t] = GetOutcome(id, qrItems)]
    /\ IF GetOutcome(id, qrItems) = "scan"
       THEN /\ titem' = [titem EXCEPT ![t] = ReadItem(kind, qrItems[id])]
            /\ tnow' = [tnow EXCEPT ![t] = clock]
       ELSE UNCHANGED <<titem, tnow>>
    /\ UNCHANGED <<clock, qrItems, qrScans, tscan, tinc, initCount, genVars, limVars, appVars, appVars>>

\* The call returns or throws: its locals are gone.
Return(t) ==
    /\ titem' = [titem EXCEPT ![t] = NoItem]
    /\ tnow' = [tnow EXCEPT ![t] = NoTime]

\* trackQr: await client.models.QrScans.create(...). The data client reports
\* a rejected mutation in the result's errors, which the handler does not
\* read; only a transport failure throws.
GqlTrackScan(t, outcome) ==
    /\ tpc[t] = "scan" /\ tkind[t] = "graphql"
    /\ CASE outcome = "ok" ->
              /\ qrScans' = qrScans \cup {ScanRow(tid[t], tnow[t], t)}
              /\ tscan' = [tscan EXCEPT ![t] = TRUE]
              /\ tpc' = [tpc EXCEPT ![t] = "update"]
              /\ UNCHANGED <<titem, tnow>>
         [] outcome = "errors" ->
              /\ tpc' = [tpc EXCEPT ![t] = "update"]
              /\ UNCHANGED <<titem, tnow>>
              /\ UNCHANGED <<qrScans, tscan>>
         [] outcome = "throws" ->
              /\ tpc' = [tpc EXCEPT ![t] = "failed"]
              /\ Return(t)
              /\ UNCHANGED <<qrScans, tscan>>
    /\ UNCHANGED <<clock, qrItems, tkind, tid, tinc, initCount, genVars, limVars, appVars, appVars>>

\* trackQr: currentScanCount = qrItem.scanCount || 0, then
\* QrItems.update({ id, scanCount: currentScanCount + 1, lastScanAt: now }).
GqlTrackUpdate(t, outcome) ==
    /\ tpc[t] = "update" /\ tkind[t] = "graphql"
    /\ CASE outcome = "ok" ->
              /\ qrItems' = GqlUpdateCounters(qrItems, tid[t],
                                ScanCountOrZero(titem[t]) + 1, tnow[t])
              /\ tinc' = [tinc EXCEPT ![t] = TRUE]
              /\ tpc' = [tpc EXCEPT ![t] = "done"]
              /\ Return(t)
         [] outcome = "errors" ->
              /\ tpc' = [tpc EXCEPT ![t] = "done"]
              /\ Return(t)
              /\ UNCHANGED <<qrItems, tinc>>
         [] outcome = "throws" ->
              /\ tpc' = [tpc EXCEPT ![t] = "failed"]
              /\ Return(t)
              /\ UNCHANGED <<qrItems, tinc>>
    /\ UNCHANGED <<clock, qrScans, tkind, tid, tscan, initCount, genVars, limVars, appVars, appVars>>

\* HTTP handler: PutCommand of the scan row; a rejected command throws and
\* the catch answers 500.
HttpTrackScan(t, outcome) ==
    /\ tpc[t] = "scan" /\ tkind[t] = "http"
    /\ CASE outcome = "ok" ->
              /\ qrScans' = qrScans \cup {ScanRow(tid[t], tnow[t], t)}
              /\ tscan' = [tscan EXCEPT ![t] = TRUE]
              /\ tpc' = [tpc EXCEPT ![t] = "update"]
              /\ UNCHANGED <<titem, tnow>>
         [] outcome = "throws" ->
              /\ tpc' = [tpc EXCEPT ![t] = "failed"]
              /\ Return(t)
              /\ UNCHANGED <<qrScans, tscan>>
    /\ UNCHANGED <<clock, qrItems, tkind, tid, tinc, initCount, genVars, limVars, appVars, appVars>>

\* HTTP handler: the UpdateCommand, then the 302 redirect.
HttpTrackUpdate(t, outcome) ==
    /\ tpc[t] = "update" /\ tkind[t] = "http"
    /\ CASE outcome = "ok" ->
              /\ qrItems' = HttpUpdateCounters(qrItems, tid[t], tnow[t])
              /\ tinc' = [tinc EXCEPT ![t] = TRUE]
              /\ tpc' = [tpc EXCEPT ![t] = "done"]
              /\ Return(t)
         [] outcome = "throws" ->
              /\ tpc' = [tpc EXCEPT ![t] = "failed"]
              /\ Return(t)
              /\ UNCHANGED <<qrItems, tinc>>
    /\ UNCHANGED <<clock, qrScans, tkind, tid, tscan, initCount, genVars, limVars, appVars, appVars>>

\* Time passes. Only the start of a call reads the clock, so time is let pass
\* while a call is still to arrive.
Tick ==
    /\ clock < MaxClock
    /\ \E t \in Trackers : tpc[t] = "idle"
    /\ clock' = clock + 1
    /\ UNCHANGED <<qrItems, qrScans, trackVars, genVars, limVars, appVars, appVars>>

(***************************************************************************)
(* Destinations.  An address is a sequence of tokens, so that the regular  *)
(* expression, the prefixing and the URL parser work on its structure.     *)
(***************************************************************************)
HostTokens == {"example.com", "other.org", "localhost", "127.0.0.1", "10.0.0.1",
               "http", "https", "javascript", "ftp"}
PortTokens == {"8080"}
PrivateHosts == {"10.0.0.1"}
LongToken == "x{2049}"
MAX_URL_LENGTH == 2048

\* The destinations users submit.
Inputs ==
    { <<"example.com">>,
      <<"https", ":", "//", "example.com">>,
      <<"javascript", ":", "alert(1)">>,
      <<"http", ":", "//", "localhost">> }

\* /^https?:\/\//i
MatchesHttp(u) ==
    Len(u) >= 3 /\ u[1] \in {"http", "https"} /\ u[2] = ":" /\ u[3] = "//"

\* generateQr and validateTargetUrl: prepend https:// when the pattern fails.
NormalizeUrl(u) == IF MatchesHttp(u) THEN u ELSE SchemeHttps \o u

\* url.length
TokenLength(tok) == IF tok = LongToken THEN 2049 ELSE Len(tok)
RECURSIVE UrlLength(_)
UrlLength(u) == IF u = <<>> THEN 0 ELSE TokenLength(Head(u)) + UrlLength(Tail(u))

\* url.trim()
RECURSIVE TrimLeft(_)
TrimLeft(u) == IF u # <<>> /\ Head(u) = " " THEN TrimLeft(Tail(u)) ELSE u
RECURSIVE TrimRight(_)
TrimRight(u) ==
    IF u # <<>> /\ u[Len(u)] = " " THEN TrimRight(SubSeq(u, 1, Len(u) - 1)) ELSE u
Trim(u) == TrimRight(TrimLeft(u))

\* The authority of an http(s) address: the tokens after "//" up to the next
\* slash.
RECURSIVE UpToSlash(_)
UpToSlash(u) ==
    IF u = <<>> \/ Head(u) \in {"/", "//"} THEN <<>>
    ELSE <<Head(u)>> \o UpToSlash(Tail(u))
Authority(u) == UpToSlash(SubSeq(u, 4, Len(u)))

\* new URL(normalizedUrl) for an address that starts with http(s)://: the
\* host is one host token, an optional ":" is followed by nothing or by
\* digits. Anything else throws "Invalid URL".
UrlParses(u) ==
    LET a == Authority(u) IN
    /\ MatchesHttp(u)
    /\ Len(a) >= 1 /\ a[1] \in HostTokens
    /\ \/ Len(a) = 1
       \/ Len(a) = 2 /\ a[2] = ":"
       \/ Len(a) = 3 /\ a[2] = ":" /\ a[3] \in PortTokens
UrlProtocol(u) == u[1] \o ":"
UrlHostname(u) == Authority(u)[1]

\* validateTargetUrl: "ok" or the reason it throws.
ValidateTargetUrl(u, prod) ==
    IF u = <<>> THEN "required"
    ELSE IF UrlLength(u) > MAX_URL_LENGTH THEN "too long"
    ELSE LET n == NormalizeUrl(Trim(u)) IN
         IF ~UrlParses(n) THEN "invalid url"
         ELSE IF UrlProtocol(n) \notin {"http:", "https:"} THEN "invalid protocol"
         ELSE IF prod /\ UrlHostname(n) \in {"localhost", "127.0.0.1"} THEN "localhost"
         ELSE IF prod /\ UrlHostname(n) \in PrivateHosts THEN "private ip"
         ELSE "ok"

(***************************************************************************)
(* Generation: the generateQr hook and the uploadQrImage function.         *)
(***************************************************************************)
Gens == 1..MaxGens
Ulids == 1..(MaxGens + 1)
GenTimes == {0, 1}
Callers == {"alice"}

\* client.models.QrItems.list({ filter: { targetUrl: { eq } }, limit: 1,
\* authMode: "userPool" }) is a DynamoDB Scan with Limit 1: the limit bounds
\* the items the scan evaluates, the filter (and the owner rule of the
\* userPool mode) is applied to what was evaluated. `first` is the item the
\* scan evaluates; the result holds it when it passes, and is empty otherwise.
ListByTargetUrl(items, first, owner, url) ==
    IF first # NoId /\ items[first] # NoItem
       /\ items[first].owner = owner /\ items[first].targetUrl = url
    THEN <<first>> ELSE <<>>

\* The items a Scan with Limit 1 may evaluate: any stored item, or none when
\* the table is empty.
ScanFirst(items) ==
    IF \A i \in DOMAIN items : items[i] = NoItem THEN {NoId}
    ELSE {i \in DOMAIN items : items[i] # NoItem}

\* The call returns or throws: uploadData is gone.
GenReturn(g) == gkey' = [gkey EXCEPT ![g] = NoKey]

\* generateQr up to the end of its dedup lookup: normalize, list, and return
\* the existing record when the list has one.
GenLookup(g, owner, input, first) ==
    /\ gpc[g] = "idle"
    /\ \A h \in Gens : h < g => gpc[h] # "idle"   \* calls numbered by arrival
    /\ first \in ScanFirst(qrItems)
    /\ gowner' = [gowner EXCEPT ![g] = owner]
    /\ gurl' = [gurl EXCEPT ![g] = NormalizeUrl(input)]
    /\ LET url == NormalizeUrl(input)
           found == ListByTargetUrl(qrItems, first, owner, url) IN
       IF owner = NoOwner
       THEN \* no signed-in user: the userPool mode throws
            /\ gpc' = [gpc EXCEPT ![g] = "error"]
            /\ UNCHANGED gresult
       ELSE IF found # <<>>
       THEN /\ gpc' = [gpc EXCEPT ![g] = "done"]
            /\ gresult' = [gresult EXCEPT ![g] = found[1]]
       ELSE /\ gpc' = [gpc EXCEPT ![g] = "create"]
            /\ UNCHANGED gresult
    /\ UNCHANGED <<clock, qrItems, qrScans, trackVars, limVars, appVars, gqrid, gkey, nextUlid,
                   s3Objects, production>>

\* id = ulid(); QrItems.create({ id, targetUrl, s3Key: "", createdAt: now,
\* scanCount: 0 }) with the owner set by the userPool mode.
GenCreate(g, outcome) ==
    /\ gpc[g] = "create"
    /\ nextUlid' = nextUlid + 1
    /\ IF outcome = "ok"
       THEN /\ qrItems' = [qrItems EXCEPT ![nextUlid] =
                              Item(gurl[g], NoKey, gowner[g], clock, 0, NoTime)]
            /\ gqrid' = [gqrid EXCEPT ![g] = nextUlid]
            /\ gpc' = [gpc EXCEPT ![g] = "upload"]
            /\ UNCHANGED gkey
       ELSE \* no data in the result ("Failed to create QR item"), or a throw
            /\ gpc' = [gpc EXCEPT ![g] = "error"]
            /\ GenReturn(g)
            /\ UNCHANGED <<qrItems, gqrid>>
    /\ UNCHANGED <<clock, qrScans, trackVars, limVars, appVars, gowner, gurl, gresult, s3Objects,
                   production>>

\* client.queries.uploadQrImage: the function validates the address, renders
\* the image and puts it in the bucket; a throw of the function comes back as
\* errors, on which generateQr throws.
GenUpload(g, outcome) ==
    /\ gpc[g] = "upload"
    /\ IF ValidateTargetUrl(gurl[g], production) = "ok" /\ outcome = "ok"
       THEN /\ s3Objects' = s3Objects \cup {S3Key(gqrid[g], clock)}
            /\ gkey' = [gkey EXCEPT ![g] = S3Key(gqrid[g], clock)]
            /\ gpc' = [gpc EXCEPT ![g] = "update"]
       ELSE /\ gpc' = [gpc EXCEPT ![g] = "error"]
            /\ GenReturn(g)
            /\ UNCHANGED s3Objects
    /\ UNCHANGED <<clock, qrItems, qrScans, trackVars, limVars, appVars, gowner, gurl, gqrid, gresult,
                   nextUlid, production>>

\* QrItems.update({ id, s3Key }) and setQrResult. The result of the update
\* is not read: rejected with errors, the call still reports success.
GenUpdate(g, outcome) ==
    /\ gpc[g] = "update"
    /\ CASE outcome = "ok" ->
              /\ qrItems' = [qrItems EXCEPT ![gqrid[g]].s3Key = gkey[g]]
              /\ gpc' = [gpc EXCEPT ![g] = "done"]
              /\ gresult' = [gresult EXCEPT ![g] = gqrid[g]]
         [] outcome = "errors" ->
              /\ gpc' = [gpc EXCEPT ![g] = "done"]
              /\ gresult' = [gresult EXCEPT ![g] = gqrid[g]]
              /\ UNCHANGED qrItems
         [] outcome = "throws" ->
              /\ gpc' = [gpc EXCEPT ![g] = "error"]
              /\ UNCHANGED <<qrItems, gresult>>
    /\ GenReturn(g)
    /\ UNCHANGED <<clock, qrScans, trackVars, limVars, appVars, gowner, gurl, gqrid, nextUlid, s3Objects,
                   production>>

\* Time passes while a generateQr call is still to arrive or in flight.
GenTick ==
    /\ clock + 1 \in GenTimes
    /\ \E g \in Gens : gpc[g] \notin {"done", "error"}
    /\ clock' = clock + 1
    /\ UNCHANGED <<qrItems, qrScans, trackVars, genVars, limVars, appVars, appVars>>

\* No generateQr call has started.
GenIdle ==
    /\ gpc = [g \in Gens |-> "idle"]
    /\ gowner = [g \in Gens |-> NoOwner]
    /\ gurl = [g \in Gens |-> <<>>]
    /\ gqrid = [g \in Gens |-> NoId]
    /\ gkey = [g \in Gens |-> NoKey]
    /\ gresult = [g \in Gens |-> NoId]
    /\ nextUlid = 1
    /\ s3Objects = {}

TrackIdle ==
    /\ tpc = [t \in Trackers |-> "idle"]
    /\ tkind = [t \in Trackers |-> "none"]
    /\ tid = [t \in Trackers |-> MissingId]
    /\ titem = [t \in Trackers |-> NoItem]
    /\ tnow = [t \in Trackers |-> NoTime]
    /\ tscan = [t \in Trackers |-> FALSE]
    /\ tinc = [t \in Trackers |-> FALSE]
    /\ initCount = 0

(***************************************************************************)
(* RateLimiter: fixed-window counters, one store per limiter instance.     *)
(***************************************************************************)
Limiters == {"qrGenerationLimiter", "qrTrackingLimiter"}
\* The identifiers seen by each instance (getClientIdentifier): a signed-in
\* user generates and scans, a visitor known by address only scans.
Identifiers(l) ==
    IF l = "qrGenerationLimiter" THEN {"user:a"} ELSE {"user:a", "ip:b"}
NoEntry == [count |-> 0, resetTime |-> NoTime]
NoResult == [limiter |-> "", identifier |-> "", allowed |-> FALSE,
             remaining |-> 0, resetTime |-> NoTime]

\* The configuration of each instance, scaled down: the generation limiter
\* has the longer window and the smaller limit, as in the source.
windowMs(l) == IF l = "qrGenerationLimiter" THEN LimWindow + 1 ELSE LimWindow
maxRequests(l) == IF l = "qrGenerationLimiter" THEN LimMax ELSE LimMax + 1

\* A plausible slip: the window is taken to end when resetTime is reached.
WindowExpired_Inclusive(entry, now) == now >= entry.resetTime

\* `now > entry.resetTime`
WindowExpired(entry, now) == now > entry.resetTime

\* A plausible slip: the limit is compared with > instead of >=.
LimitReached_OffByOne(l, entry) == entry.count > maxRequests(l)

\* `entry.count >= this.config.maxRequests`
LimitReached(l, entry) == entry.count >= maxRequests(l)

\* A plausible slip: an allowed call moves the end of the window.
CheckEntry_Slide(l, entry, now) ==
    IF entry = NoEntry \/ WindowExpired(entry, now)
    THEN [count |-> 1, resetTime |-> now + windowMs(l)]
    ELSE IF LimitReached(l, entry) THEN entry
    ELSE [count |-> entry.count + 1, resetTime |-> now + windowMs(l)]

\* The value check returns and the entry it leaves.
CheckEntry(l, entry, now) ==
    IF entry = NoEntry \/ WindowExpired(entry, now)
    THEN [count |-> 1, resetTime |-> now + windowMs(l)]
    ELSE IF LimitReached(l, entry) THEN entry
    ELSE [entry EXCEPT !.count = entry.count + 1]

CheckResult(l, id, entry, now) ==
    IF entry = NoEntry \/ WindowExpired(entry, now)
    THEN [limiter |-> l, identifier |-> id, allowed |-> TRUE,
          remaining |-> maxRequests(l) - 1, resetTime |-> now + windowMs(l)]
    ELSE IF LimitReached(l, entry)
    THEN [limiter |-> l, identifier |-> id, allowed |-> FALSE,
          remaining |-> 0, resetTime |-> entry.resetTime]
    ELSE [limiter |-> l, identifier |-> id, allowed |-> TRUE,
          remaining |-> maxRequests(l) - (entry.count + 1),
          resetTime |-> entry.resetTime]

\* check(identifier). The history variables follow the definition of a
\* fixed window, not the store: a check at a time after the end of the
\* window (or the first one, or the first after a reset) opens a window that
\* ends windowMs later; every check counts.
Check(l, id) ==
    LET entry == limStore[l][id]
        res == CheckResult(l, id, entry, clock)
        opens == winEnd[l][id] = NoTime \/ clock > winEnd[l][id] IN
    /\ limStore' = [limStore EXCEPT ![l][id] = CheckEntry(l, entry, clock)]
    /\ limResult' = res
    /\ winEnd' = [winEnd EXCEPT ![l][id] = IF opens THEN clock + windowMs(l) ELSE @]
    /\ winCalls' = [winCalls EXCEPT ![l][id] =
                       IF opens THEN 1
                       ELSE IF @ > maxRequests(l) THEN @ ELSE @ + 1]
    /\ winDenied' = [winDenied EXCEPT ![l][id] = @ \/ ~res.allowed]

\* A caller of check that is not withRateLimit.
LimCheck(l, id) ==
    /\ Check(l, id)
    /\ UNCHANGED <<clock, qrItems, qrScans, trackVars, genVars, appVars>>

\* A plausible slip: reset empties the instance's store.
ResetStore_Clear(store, l, id) ==
    [store EXCEPT ![l] = [i \in DOMAIN store[l] |-> NoEntry]]

\* `this.store.delete(key)` with key = `rate_limit:${identifier}`
ResetStore(store, l, id) == [store EXCEPT ![l][id] = NoEntry]

\* reset(identifier): the entry is deleted; the next check opens a window.
LimReset(l, id) ==
    /\ limStore[l][id] # NoEntry
    /\ limStore' = ResetStore(limStore, l, id)
    /\ winEnd' = [winEnd EXCEPT ![l][id] = NoTime]
    /\ winCalls' = [winCalls EXCEPT ![l][id] = 0]
    /\ winDenied' = [winDenied EXCEPT ![l][id] = FALSE]
    /\ limResult' = NoResult
    /\ UNCHANGED <<clock, qrItems, qrScans, trackVars, genVars, appVars>>

\* A plausible slip: the sweep compares with >= and takes the entries whose
\* window ends now.
LimCleanup_Eager(l) ==
    /\ \E id \in Identifiers(l) :
          limStore[l][id] # NoEntry /\ clock >= limStore[l][id].resetTime
    /\ limStore' = [limStore EXCEPT ![l] =
                      [id \in Identifiers(l) |->
                          IF limStore[l][id] # NoEntry
                             /\ clock >= limStore[l][id].resetTime
                          THEN NoEntry ELSE limStore[l][id]]]
    /\ limResult' = NoResult
    /\ UNCHANGED <<clock, qrItems, qrScans, trackVars, genVars, appVars, winEnd, winCalls,
                   winDenied>>

\* cleanup(), run by the interval timer: expired entries are deleted.
LimCleanup(l) ==
    /\ \E id \in Identifiers(l) :
          limStore[l][id] # NoEntry /\ WindowExpired(limStore[l][id], clock)
    /\ limStore' = [limStore EXCEPT ![l] =
                      [id \in Identifiers(l) |->
                          IF limStore[l][id] # NoEntry
                             /\ WindowExpired(limStore[l][id], clock)
                          THEN NoEntry ELSE limStore[l][id]]]
    /\ limResult' = NoResult
    /\ UNCHANGED <<clock, qrItems, qrScans, trackVars, genVars, appVars, winEnd, winCalls,
                   winDenied>>

LimTick ==
    /\ clock < MaxLimClock
    /\ clock' = clock + 1
    /\ limResult' = NoResult
    /\ UNCHANGED <<qrItems, qrScans, trackVars, genVars, appVars, limStore, winEnd, winCalls,
                   winDenied>>

LimIdle ==
    /\ limStore = [l \in Limiters |-> [id \in Identifiers(l) |-> NoEntry]]
    /\ limResult = NoResult
    /\ winEnd = [l \in Limiters |-> [id \in Identifiers(l) |-> NoTime]]
    /\ winCalls = [l \in Limiters |-> [id \in Identifiers(l) |-> 0]]
    /\ winDenied = [l \in Limiters |-> [id \in Identifiers(l) |-> FALSE]]

(***************************************************************************)
(* Management: the listQrItems / deleteQrItem function and the             *)
(* useQrManagement hook.                                                   *)
(***************************************************************************)
Managers == 1..MaxManagers
Users == {"alice", "bob"}

\* event.identity.sub, or null when the event carries no identity.
NoSub == "null"
Sub(caller) == IF caller = NoOwner THEN NoSub ELSE caller

\* item.ownerSub. generateQr creates the record without the attribute (the
\* owner rule fills `owner`), and no update writes it.
OwnerSub(item) == NoSub

NoAnswer == [status |-> "none", ids |-> {}]
Answer(status, ids) == [status |-> status, ids |-> ids]

\* `userSub && getResult.data.ownerSub !== userSub` throws; otherwise the
\* delete goes ahead.
DeleteAllowed(userSub, item) == ~(userSub # NoSub /\ OwnerSub(item) # userSub)

\* deleteQrItem up to its ownership test.
DeleteGet(m, caller, id) ==
    /\ mpc[m] = "idle"
    /\ \A n \in Managers : n < m => mpc[n] # "idle"   \* numbered by arrival
    /\ mcaller' = [mcaller EXCEPT ![m] = caller]
    /\ mid' = [mid EXCEPT ![m] = id]
    /\ IF id = NoId
       THEN /\ mpc' = [mpc EXCEPT ![m] = "done"]
            /\ mresult' = [mresult EXCEPT ![m] = Answer("badrequest", {})]
       ELSE IF qrItems[id] = NoItem
       THEN /\ mpc' = [mpc EXCEPT ![m] = "done"]
            /\ mresult' = [mresult EXCEPT ![m] = Answer("notfound", {})]
       ELSE IF ~DeleteAllowed(Sub(caller), qrItems[id])
       THEN /\ mpc' = [mpc EXCEPT ![m] = "done"]
            /\ mresult' = [mresult EXCEPT ![m] = Answer("unauthorized", {})]
       ELSE /\ mpc' = [mpc EXCEPT ![m] = "delete"]
            /\ UNCHANGED mresult
    /\ UNCHANGED <<clock, qrItems, qrScans, trackVars, genVars, limVars, guardVars, flightVars,
                   cacheVars, serveVars, callerVars>>

\* A plausible slip: the delete takes the record's scan rows with it.
RemoveScans_Cascade(scans, id) == {r \in scans : r.qrId # id}

\* client.models.QrItems.delete({ id }): the QrItems row goes.
RemoveItem(items, id) == [items EXCEPT ![id] = NoItem]
\* "Related scans are kept for analytics purposes": QrScans is not touched.
RemoveScans(scans, id) == scans

\* deleteQrItem: the delete under the function's iam mode; no data in the
\* result (the row was gone) throws "Failed to delete QR code".
DeleteItem(m, outcome) ==
    /\ mpc[m] = "delete"
    /\ mpc' = [mpc EXCEPT ![m] = "done"]
    /\ IF outcome = "ok" /\ qrItems[mid[m]] # NoItem
       THEN /\ qrItems' = RemoveItem(qrItems, mid[m])
            /\ qrScans' = RemoveScans(qrScans, mid[m])
            /\ mresult' = [mresult EXCEPT ![m] = Answer("deleted", {})]
       ELSE /\ mresult' = [mresult EXCEPT ![m] = Answer("failed", {})]
            /\ UNCHANGED <<qrItems, qrScans>>
    /\ UNCHANGED <<clock, trackVars, genVars, limVars, mcaller, mid, guardVars, flightVars,
                   cacheVars, serveVars, callerVars>>

\* useQrManagement.deleteQrItem: QrItems.delete in the userPool mode. The
\* owner rule of the schema lets the record's owner through and answers
\* everyone else with errors.
HookDelete(m, caller, id) ==
    /\ mpc[m] = "idle"
    /\ \A n \in Managers : n < m => mpc[n] # "idle"
    /\ mcaller' = [mcaller EXCEPT ![m] = caller]
    /\ mid' = [mid EXCEPT ![m] = id]
    /\ mpc' = [mpc EXCEPT ![m] = "done"]
    /\ IF id = NoId \/ qrItems[id] = NoItem
       THEN /\ mresult' = [mresult EXCEPT ![m] = Answer("notfound", {})]
            /\ UNCHANGED <<qrItems, qrScans>>
       ELSE IF caller = NoOwner \/ qrItems[id].owner # caller
       THEN /\ mresult' = [mresult EXCEPT ![m] = Answer("unauthorized", {})]
            /\ UNCHANGED <<qrItems, qrScans>>
       ELSE /\ qrItems' = RemoveItem(qrItems, id)
            /\ qrScans' = RemoveScans(qrScans, id)
            /\ mresult' = [mresult EXCEPT ![m] = Answer("deleted", {})]
    /\ UNCHANGED <<clock, trackVars, genVars, limVars, guardVars, flightVars, cacheVars,
                   serveVars, callerVars>>

\* `filter: userSub ? { ownerSub: { eq: userSub } } : undefined`
ListFilter(userSub, item) == userSub = NoSub \/ OwnerSub(item) = userSub

\* listQrItems: QrItems.list under the function's iam mode (limit 100, more
\* than the table holds), mapped to the fields the caller gets.
ListQrItems(m, caller) ==
    /\ mpc[m] = "idle"
    /\ \A n \in Managers : n < m => mpc[n] # "idle"
    /\ mcaller' = [mcaller EXCEPT ![m] = caller]
    /\ mpc' = [mpc EXCEPT ![m] = "done"]
    /\ mresult' = [mresult EXCEPT ![m] =
           Answer("listed", {i \in DOMAIN qrItems :
                               qrItems[i] # NoItem /\ ListFilter(Sub(caller), qrItems[i])})]
    /\ UNCHANGED <<clock, qrItems, qrScans, trackVars, genVars, limVars, mid,
                   guardVars, flightVars, cacheVars, serveVars, callerVars>>

\* useQrManagement.fetchQrItems: QrItems.list in the userPool mode; the owner
\* rule returns the caller's records, and errors without a signed-in user.
FetchQrItems(m, caller) ==
    /\ mpc[m] = "idle"
    /\ \A n \in Managers : n < m => mpc[n] # "idle"
    /\ mcaller' = [mcaller EXCEPT ![m] = caller]
    /\ mpc' = [mpc EXCEPT ![m] = "done"]
    /\ mresult' = [mresult EXCEPT ![m] =
           IF caller = NoOwner THEN Answer("unauthorized", {})
           ELSE Answer("listed", {i \in DOMAIN qrItems :
                                    qrItems[i] # NoItem /\ qrItems[i].owner = caller})]
    /\ UNCHANGED <<clock, qrItems, qrScans, trackVars, genVars, limVars, mid,
                   guardVars, flightVars, cacheVars, serveVars, callerVars>>

ManageIdle ==
    /\ mpc = [m \in Managers |-> "idle"]
    /\ mcaller = [m \in Managers |-> NoOwner]
    /\ mid = [m \in Managers |-> NoId]
    /\ mresult = [m \in Managers |-> NoAnswer]

(***************************************************************************)
(* withRateLimit: the middleware that guards a route handler.              *)
(***************************************************************************)
NoResponse == [status |-> "none", handled |-> FALSE, limit |-> 0, remaining |-> 0,
               reset |-> NoTime, retryAfter |-> 0]

\* config.skipFailedRequests: not set for any of the exported instances; a
\* limiter built with `skipFailedRequests: true` stands for the configured
\* case, with the window and the limit of the tracking limiter.
SkippingLimiter == "skipFailedRequests: true"
skipFailedRequests(l) == l = SkippingLimiter

\* A plausible slip: the handler is run before the result is looked at.
RunsHandler_Always(res) == TRUE

\* `if (!result.allowed) return new Response(..., { status: 429 })` comes
\* before `await handler()`.
RunsHandler(res) == res.allowed

\* The 429 response: X-RateLimit-* headers, resetTime, and Retry-After =
\* ceil((result.resetTime - Date.now()) / 1000), in ticks here.
TooManyRequests(l, res, now) ==
    [status |-> "429", handled |-> FALSE, limit |-> maxRequests(l),
     remaining |-> res.remaining, reset |-> res.resetTime,
     retryAfter |-> res.resetTime - now]

\* The handler's response with the rate limit headers set, or its throw.
Handled(l, res, outcome) ==
    [status |-> IF outcome = "ok" THEN "200" ELSE "thrown", handled |-> TRUE,
     limit |-> maxRequests(l), remaining |-> res.remaining,
     reset |-> res.resetTime, retryAfter |-> 0]

\* withRateLimit(request, limiter, handler); outcome is what the handler does
\* when it is run.
WithRateLimit(l, id, outcome) ==
    LET res == CheckResult(l, id, limStore[l][id], clock) IN
    /\ IF RunsHandler(res) /\ outcome = "throws" /\ skipFailedRequests(l)
       THEN \* limiter.reset(identifier) after the check
            /\ limStore' = ResetStore(limStore, l, id)
            /\ limResult' = res
            /\ winEnd' = [winEnd EXCEPT ![l][id] = NoTime]
            /\ winCalls' = [winCalls EXCEPT ![l][id] = 0]
            /\ winDenied' = [winDenied EXCEPT ![l][id] = FALSE]
       ELSE Check(l, id)
    /\ guardResponse' =
          IF RunsHandler(res) THEN Handled(l, res, outcome)
          ELSE TooManyRequests(l, res, clock)
    /\ UNCHANGED <<clock, qrItems, qrScans, trackVars, genVars, manageVars,
                   cacheVars, serveVars, flightVars, callerVars>>

\* Time passes between requests.
GuardTick ==
    /\ clock < MaxLimClock
    /\ clock' = clock + 1
    /\ limResult' = NoResult
    /\ guardResponse' = NoResponse
    /\ UNCHANGED <<qrItems, qrScans, trackVars, genVars, limStore, winEnd, winCalls,
                   winDenied, manageVars, cacheVars, serveVars, flightVars, callerVars>>

GuardIdle == guardResponse = NoResponse

(***************************************************************************)
(* withRateLimit with its handler in flight: check and the start of the    *)
(* handler are one synchronous step, the handler ends in a later step, and *)
(* other requests are checked in between.                                  *)
(***************************************************************************)
Requests == 1..MaxRequests

\* withRateLimit up to `await handler()`: getClientIdentifier, check, and
\* the 429 response when the check is denied.
GuardCheck(r, l, id) ==
    LET res == CheckResult(l, id, limStore[l][id], clock) IN
    /\ rpc[r] = "idle"
    /\ \A q \in Requests : q < r => rpc[q] # "idle"   \* numbered by arrival
    /\ Check(l, id)
    /\ rlim' = [rlim EXCEPT ![r] = l]
    /\ rident' = [rident EXCEPT ![r] = id]
    /\ rwin' = [rwin EXCEPT ![r] = winEnd'[l][id]]
    /\ IF RunsHandler(res)
       THEN /\ rpc' = [rpc EXCEPT ![r] = "handler"]
            /\ rres' = [rres EXCEPT ![r] = res]
            /\ guardResponse' = NoResponse
       ELSE /\ rpc' = [rpc EXCEPT ![r] = "denied"]
            /\ UNCHANGED rres
            /\ guardResponse' = TooManyRequests(l, res, clock)
    /\ UNCHANGED <<clock, qrItems, qrScans, trackVars, genVars, manageVars,
                   cacheVars, serveVars, callerVars>>

\* The handler's promise settles: the response gets the headers of the
\* request's own check result; on a throw the catch branch resets the
\* identifier when the limiter is configured with skipFailedRequests.
GuardFinish(r, outcome) ==
    LET l == rlim[r]
        id == rident[r] IN
    /\ rpc[r] = "handler"
    /\ rpc' = [rpc EXCEPT ![r] = IF outcome = "ok" THEN "done" ELSE "failed"]
    /\ rres' = [rres EXCEPT ![r] = NoResult]
    /\ guardResponse' = Handled(l, rres[r], outcome)
    /\ limResult' = NoResult
    /\ IF outcome = "throws" /\ skipFailedRequests(l)
       THEN /\ limStore' = ResetStore(limStore, l, id)
            /\ winEnd' = [winEnd EXCEPT ![l][id] = NoTime]
            /\ winCalls' = [winCalls EXCEPT ![l][id] = 0]
            /\ winDenied' = [winDenied EXCEPT ![l][id] = FALSE]
       ELSE UNCHANGED <<limStore, winEnd, winCalls, winDenied>>
    /\ UNCHANGED <<clock, qrItems, qrScans, trackVars, genVars, manageVars,
                   cacheVars, serveVars, rlim, rident, rwin, callerVars>>

\* Time passes while requests are in flight or still to arrive.
FlightTick ==
    /\ clock < MaxLimClock
    /\ \E r \in Requests : rpc[r] \in {"idle", "handler"}
    /\ clock' = clock + 1
    /\ limResult' = NoResult
    /\ guardResponse' = NoResponse
    /\ UNCHANGED <<qrItems, qrScans, trackVars, genVars, limStore, winEnd, winCalls,
                   winDenied, manageVars, cacheVars, serveVars, flightVars, callerVars>>

\* No guarded request has arrived.
FlightIdle ==
    /\ rpc = [r \in Requests |-> "idle"]
    /\ rlim = [r \in Requests |-> ""]
    /\ rident = [r \in Requests |-> ""]
    /\ rres = [r \in Requests |-> NoResult]
    /\ rwin = [r \in Requests |-> NoTime]

(***************************************************************************)
(* MemoryCache: a map of entries with a ttl and tags.                      *)
(***************************************************************************)
CacheKeys == {"k1", "k2"}
CacheData == {"v", "w"}
Tags == {"user:42", "qr_items"}
\* The tags entries are set with: none, a kind, a kind and a user.
TagSets == {{}, {"qr_items"}, {"qr_items", "user:42"}}
Ttls == 0..MaxTtl
\* `5 * 60 * 1000`, the default ttl: longer than every ttl passed here.
DefaultTtl == MaxTtl + 1
Null == "null"
NoCacheEntry == [absent |-> TRUE]
NoCacheResult == [op |-> "none"]

\* `options.ttl || 5 * 60 * 1000`: a ttl of 0 is falsy.
EntryTtl(ttl) == IF ttl = 0 THEN DefaultTtl ELSE ttl

\* set(key, data, options): the entry that is stored.
CacheEntry(data, now, ttl, tags) ==
    [absent |-> FALSE, data |-> data, timestamp |-> now, ttl |-> EntryTtl(ttl),
     tags |-> tags]

\* `Date.now() > entry.timestamp + entry.ttl`
Expired(entry, now) == now > entry.timestamp + entry.ttl

\* get(key) finds an entry that has not expired.
CacheHit(c, key, now) == c[key] # NoCacheEntry /\ ~Expired(c[key], now)

\* get(key): the value returned.
CacheValueOf(c, key, now) == IF CacheHit(c, key, now) THEN c[key].data ELSE Null

\* get(key): the map afterwards; an expired entry is deleted.
CacheAfterGet(c, key, now) ==
    IF c[key] # NoCacheEntry /\ Expired(c[key], now)
    THEN [c EXCEPT ![key] = NoCacheEntry] ELSE c

\* A plausible slip: `every` for `some`.
Intersects_Every(entryTags, tags) == \A tag \in entryTags : tag \in tags

\* `entry.tags && entry.tags.some((tag) => tags.includes(tag))`
Intersects(entryTags, tags) == \E tag \in entryTags : tag \in tags

\* invalidateByTags(tags): the keys it deletes.
Invalidated(c, tags) ==
    {k \in DOMAIN c : c[k] # NoCacheEntry /\ Intersects(c[k].tags, tags)}

CacheWithout(c, keys) ==
    [k \in DOMAIN c |-> IF k \in keys THEN NoCacheEntry ELSE c[k]]

CacheFrame ==
    UNCHANGED <<clock, qrItems, qrScans, trackVars, genVars, limVars, manageVars,
                guardVars, flightVars, serveVars, callerVars>>

CacheGet(key) ==
    /\ cacheResult' = [op |-> "get", key |-> key,
                       value |-> CacheValueOf(cache, key, clock)]
    /\ cache' = CacheAfterGet(cache, key, clock)
    /\ UNCHANGED cacheAsked
    /\ CacheFrame

CacheSet(key, data, ttl, tags) ==
    /\ cache' = [cache EXCEPT ![key] = CacheEntry(data, clock, ttl, tags)]
    /\ cacheAsked' = [cacheAsked EXCEPT ![key] = ttl]
    /\ cacheResult' = [op |-> "set", key |-> key]
    /\ CacheFrame

\* delete(key)
CacheDelete(key) ==
    /\ cache[key] # NoCacheEntry
    /\ cache' = [cache EXCEPT ![key] = NoCacheEntry]
    /\ cacheResult' = [op |-> "delete", key |-> key]
    /\ UNCHANGED cacheAsked
    /\ CacheFrame

InvalidateByTags(tags) ==
    /\ cache' = CacheWithout(cache, Invalidated(cache, tags))
    /\ cacheResult' = [op |-> "invalidate", tags |-> tags,
                       count |-> Cardinality(Invalidated(cache, tags))]
    /\ UNCHANGED cacheAsked
    /\ CacheFrame

\* cleanup(), run by the interval timer.
CacheCleanup ==
    LET old == {k \in DOMAIN cache :
                   cache[k] # NoCacheEntry /\ Expired(cache[k], clock)} IN
    /\ old # {}
    /\ cache' = CacheWithout(cache, old)
    /\ cacheResult' = NoCacheResult
    /\ UNCHANGED cacheAsked
    /\ CacheFrame

CacheTick ==
    /\ clock < MaxCacheClock
    /\ clock' = clock + 1
    /\ cacheResult' = NoCacheResult
    /\ UNCHANGED <<cache, cacheAsked>>
    /\ UNCHANGED <<qrItems, qrScans, trackVars, genVars, limVars, manageVars,
                   guardVars, flightVars, serveVars, callerVars>>

\* No cache has been built.
CacheIdle ==
    /\ cache = <<>>
    /\ cacheResult = NoCacheResult
    /\ cacheAsked = <<>>

(***************************************************************************)
(* The image and download endpoints, and the QrCache the download endpoint *)
(* reads through.                                                          *)
(***************************************************************************)
Serves == 1..MaxServes

\* A plausible slip: the entry is set without the user tag.
QrItemTags_NoUser(userId) == {<<"qr_items">>}

\* `qr_item:${qrId}`
QrItemKey(id) == <<"qr_item", id>>
\* ["qr_items", `user:${userId}`]
QrItemTags(userId) == {<<"qr_items">>, <<"user", userId>>}
\* `10 * 60 * 1000`, twice the default ttl
QrItemTtl == 2 * DefaultTtl

\* SerializingCache: JSON.stringify on set, JSON.parse on get.
Stringify(data) == [json |-> data]
Parse(data) == data.json

\* getUrl({ path, options: { validateObjectExistence: true } }) throws when
\* the bucket has no object at the path; the empty path names no object.
ObjectExists(key, objects) == key # NoKey /\ key \in objects

ServeFrame ==
    UNCHANGED <<clock, qrScans, trackVars, genVars, limVars, manageVars, guardVars, flightVars,
                cacheResult, cacheAsked, callerVars>>

\* Download: the id test, qrCache.getQrItem, and on a miss QrItems.get and
\* qrCache.setQrItem(qrId, qrItem, qrItem.owner).
DownloadLookup(s, id) ==
    LET key == QrItemKey(id)
        hit == CacheHit(cache, key, clock) IN
    /\ spc[s] = "idle"
    /\ \A r \in Serves : r < s => spc[r] # "idle"   \* numbered by arrival
    /\ skind' = [skind EXCEPT ![s] = "download"]
    /\ sid' = [sid EXCEPT ![s] = id]
    /\ IF id = NoId
       THEN /\ spc' = [spc EXCEPT ![s] = "done"]
            /\ sresult' = [sresult EXCEPT ![s] = "400"]
            /\ UNCHANGED <<cache, sitem>>
       ELSE IF hit
       THEN /\ spc' = [spc EXCEPT ![s] = "sign"]
            /\ sitem' = [sitem EXCEPT ![s] = Parse(CacheValueOf(cache, key, clock))]
            /\ cache' = CacheAfterGet(cache, key, clock)
            /\ UNCHANGED sresult
       ELSE IF qrItems[id] = NoItem
       THEN /\ spc' = [spc EXCEPT ![s] = "done"]
            /\ sresult' = [sresult EXCEPT ![s] = "404"]
            /\ cache' = CacheAfterGet(cache, key, clock)
            /\ UNCHANGED sitem
       ELSE /\ spc' = [spc EXCEPT ![s] = "sign"]
            /\ sitem' = [sitem EXCEPT ![s] = qrItems[id]]
            /\ cache' = [cache EXCEPT ![key] =
                            CacheEntry(Stringify(qrItems[id]), clock, QrItemTtl,
                                       QrItemTags(qrItems[id].owner))]
            /\ UNCHANGED sresult
    /\ UNCHANGED qrItems
    /\ ServeFrame

\* Download: getUrl, the fetch of the signed URL and the image response; a
\* throw of getUrl is caught and answered 500, as is a failed fetch.
DownloadSign(s, outcome) ==
    /\ spc[s] = "sign" /\ skind[s] = "download"
    /\ spc' = [spc EXCEPT ![s] = "done"]
    /\ sresult' = [sresult EXCEPT ![s] =
          IF ObjectExists(sitem[s].s3Key, s3Objects) /\ outcome = "ok"
          THEN "200" ELSE "500"]
    /\ sitem' = [sitem EXCEPT ![s] = NoItem]
    /\ UNCHANGED <<qrItems, cache, skind, sid>>
    /\ ServeFrame

\* Image: the id test, QrItems.get, and `if (!qrItem.s3Key)`.
ImageLookup(s, id) ==
    /\ spc[s] = "idle"
    /\ \A r \in Serves : r < s => spc[r] # "idle"
    /\ skind' = [skind EXCEPT ![s] = "image"]
    /\ sid' = [sid EXCEPT ![s] = id]
    /\ IF id = NoId
       THEN /\ spc' = [spc EXCEPT ![s] = "done"]
            /\ sresult' = [sresult EXCEPT ![s] = "400"]
            /\ UNCHANGED sitem
       ELSE IF qrItems[id] = NoItem \/ qrItems[id].s3Key = NoKey
       THEN /\ spc' = [spc EXCEPT ![s] = "done"]
            /\ sresult' = [sresult EXCEPT ![s] = "404"]
            /\ UNCHANGED sitem
       ELSE /\ spc' = [spc EXCEPT ![s] = "sign"]
            /\ sitem' = [sitem EXCEPT ![s] = qrItems[id]]
            /\ UNCHANGED sresult
    /\ UNCHANGED <<qrItems, cache>>
    /\ ServeFrame

\* Image: getUrl and the redirect to the signed URL (expiresIn: 3600).
ImageSign(s, outcome) ==
    /\ spc[s] = "sign" /\ skind[s] = "image"
    /\ spc' = [spc EXCEPT ![s] = "done"]
    /\ sresult' = [sresult EXCEPT ![s] =
          IF ObjectExists(sitem[s].s3Key, s3Objects) /\ outcome = "ok"
          THEN "302" ELSE "500"]
    /\ sitem' = [sitem EXCEPT ![s] = NoItem]
    /\ UNCHANGED <<qrItems, cache, skind, sid>>
    /\ ServeFrame

ServeIdle ==
    /\ spc = [s \in Serves |-> "idle"]
    /\ skind = [s \in Serves |-> "none"]
    /\ sid = [s \in Serves |-> NoId]
    /\ sitem = [s \in Serves |-> NoItem]
    /\ sresult = [s \in Serves |-> "none"]

(***************************************************************************)
(* Callers: getClientIdentifier, ResponseCache.getCacheKey and withCache.  *)
(* A string that the code cuts is a sequence of characters.                *)
(***************************************************************************)
Clients == 1..MaxClients
NoHeader == <<>>
Bearer == <<"B", "e", "a", "r", "e", "r", " ">>
\* The first twenty characters of a JWT signed with RS256: the encoding of
\* `{"alg":"RS256",`, the same in every such token.
JwtHeader ==
    <<"e", "y", "J", "h", "b", "G", "c", "i", "O", "i",
      "J", "S", "U", "z", "I", "1", "N", "i", "I", "s">>
\* The tokens callers present: two JWTs of different users, two short
\* opaque tokens.
Tokens == {JwtHeader \o <<"A">>, JwtHeader \o <<"B">>, <<"t", "1">>, <<"t", "2">>}
Authorizations == {NoHeader} \cup {Bearer \o t : t \in Tokens}
Addresses == {"", "10.1.1.1"}
Methods == {"GET", "POST"}
Paths == {"/api/qr/list"}
ClientRequests ==
    [authorization : Authorizations, forwarded : Addresses, method : Methods,
     pathname : Paths]
NoRequest == [authorization |-> NoHeader, forwarded |-> "", method |-> "", pathname |-> ""]
NoIdentity == <<>>
NoReply == [status |-> "none", body |-> NoHeader, xCache |-> ""]

\* s.substring(0, n)
Substring(s, n) == SubSeq(s, 1, IF Len(s) < n THEN Len(s) ELSE n)

\* s.replace(pattern, ""): the first occurrence of the pattern is removed.
RECURSIVE IndexOf(_, _, _)
IndexOf(s, pattern, from) ==
    IF from + Len(pattern) - 1 > Len(s) THEN 0
    ELSE IF SubSeq(s, from, from + Len(pattern) - 1) = pattern THEN from
    ELSE IndexOf(s, pattern, from + 1)
Remove(s, pattern) ==
    LET at == IndexOf(s, pattern, 1) IN
    IF at = 0 THEN s
    ELSE SubSeq(s, 1, at - 1) \o SubSeq(s, at + Len(pattern), Len(s))

\* `user:${token.substring(0, 20)}` when the request has an authorization
\* header, else `ip:${forwarded || realIp || "unknown"}`.
getClientIdentifier(request) ==
    IF request.authorization # NoHeader
    THEN <<"user", Substring(Remove(request.authorization, Bearer), 20)>>
    ELSE <<"ip", IF request.forwarded # "" THEN request.forwarded ELSE "unknown">>

\* `response:${method}:${url.pathname}:${searchParams}:${userContext}` with
\* userContext = authHeader ? authHeader.substring(0, 20) : "anonymous".
getCacheKey(request) ==
    <<"response", request.method, request.pathname, "",
      IF request.authorization # NoHeader
      THEN Substring(request.authorization, 20) ELSE <<"anonymous">>>>

\* options.cacheableMethods || ["GET"]
cacheableMethods == {"GET"}
\* options.cacheableStatus || [200]
cacheableStatus == {"200"}

\* What the route's handler answers: a response made for the caller of the
\* request (its body names the caller's authorization).
HandlerResponse(request, status) ==
    [status |-> status, body |-> request.authorization, xCache |-> ""]

CallerFrame ==
    UNCHANGED <<clock, qrItems, qrScans, trackVars, genVars, limVars, manageVars,
                guardVars, serveVars, flightVars, cacheAsked, wreq>>

\* The limiter middleware names the caller.
Identify(w) ==
    /\ wpc[w] = "idle"
    /\ wpc' = [wpc EXCEPT ![w] = "identified"]
    /\ wident' = [wident EXCEPT ![w] = getClientIdentifier(wreq[w])]
    /\ UNCHANGED <<cache, cacheResult, wresp>>
    /\ CallerFrame

\* withCache up to `await handler()`: a request of another method goes to
\* the handler; else responseCache.get(request) answers a hit.
WithCacheGet(w) ==
    LET key == getCacheKey(wreq[w]) IN
    /\ wpc[w] = "identified"
    /\ IF wreq[w].method \in cacheableMethods /\ CacheHit(cache, key, clock)
       THEN /\ wpc' = [wpc EXCEPT ![w] = "done"]
            /\ wresp' = [wresp EXCEPT ![w] =
                             [CacheValueOf(cache, key, clock) EXCEPT !.xCache = "HIT"]]
            /\ cacheResult' = [op |-> "get", key |-> key]
       ELSE /\ wpc' = [wpc EXCEPT ![w] = "handler"]
            /\ UNCHANGED <<wresp, cacheResult>>
    /\ cache' = IF wreq[w].method \in cacheableMethods
                THEN CacheAfterGet(cache, key, clock) ELSE cache
    /\ UNCHANGED wident
    /\ CallerFrame

\* withCache after the handler: a response with a cacheable status is set
\* under the request's key and returned as a MISS.
WithCacheHandler(w, status) ==
    LET key == getCacheKey(wreq[w])
        response == HandlerResponse(wreq[w], status) IN
    /\ wpc[w] = "handler"
    /\ wpc' = [wpc EXCEPT ![w] = "done"]
    /\ IF wreq[w].method \in cacheableMethods /\ status \in cacheableStatus
       THEN /\ cache' = [cache EXCEPT ![key] = CacheEntry(response, clock, 0, {})]
            /\ cacheResult' = [op |-> "set", key |-> key]
            /\ wresp' = [wresp EXCEPT ![w] = [response EXCEPT !.xCache = "MISS"]]
       ELSE /\ wresp' = [wresp EXCEPT ![w] = response]
            /\ UNCHANGED <<cache, cacheResult>>
    /\ UNCHANGED wident
    /\ CallerFrame

\* No client request has been made.
CallerIdle ==
    /\ wpc = [w \in Clients |-> "idle"]
    /\ wreq = [w \in Clients |-> NoRequest]
    /\ wident = [w \in Clients |-> NoIdentity]
    /\ wresp = [w \in Clients |-> NoReply]

(***************************************************************************)
(* The parts of the application that a specification leaves at rest.       *)
(***************************************************************************)
AppIdle ==
    ManageIdle /\ GuardIdle /\ CacheIdle /\ ServeIdle /\ FlightIdle /\ CallerIdle

(***************************************************************************)
(* Specification of generation: the table is empty or holds one complete   *)
(* record that bob generated earlier; signed-in users (and a visitor who   *)
(* is not signed in) call generateQr concurrently.                         *)
(***************************************************************************)
BobsItem ==
    Item(SchemeHttps \o <<"example.com">>, S3Key(1, 0), "bob", 0, 0, NoTime)

InitGen ==
    /\ clock = 0
    /\ \/ qrItems = [i \in Ulids |-> NoItem] /\ nextUlid = 1 /\ s3Objects = {}
       \/ /\ qrItems = [i \in Ulids |-> IF i = 1 THEN BobsItem ELSE NoItem]
          /\ nextUlid = 2 /\ s3Objects = {S3Key(1, 0)}
    /\ qrScans = {}
    /\ TrackIdle
    /\ gpc = [g \in Gens |-> "idle"]
    /\ gowner = [g \in Gens |-> NoOwner]
    /\ gurl = [g \in Gens |-> <<>>]
    /\ gqrid = [g \in Gens |-> NoId]
    /\ gkey = [g \in Gens |-> NoKey]
    /\ gresult = [g \in Gens |-> NoId]
    /\ production \in BOOLEAN
    /\ LimIdle
    /\ AppIdle

NextGen ==
    \/ \E g \in Gens, o \in Callers \cup {NoOwner}, u \in Inputs,
          f \in Ulids \cup {NoId} : GenLookup(g, o, u, f)
    \/ \E g \in Gens, r \in {"ok", "errors"} : GenCreate(g, r)
    \/ \E g \in Gens, r \in {"ok", "throws"} : GenUpload(g, r)
    \/ \E g \in Gens, r \in {"ok", "errors", "throws"} : GenUpdate(g, r)
    \/ GenTick

SpecGen == InitGen /\ [][NextGen]_vars

(***************************************************************************)
(* Specification of tracking: one complete record exists, any number of    *)
(* track calls of either kind run against the store concurrently.          *)
(***************************************************************************)
InitTrack ==
    /\ clock = 0
    /\ initCount \in {0, 1}
    /\ qrItems = [i \in {ExistingId, UnknownId} |->
                    IF i = ExistingId
                    THEN Item(SchemeHttps \o <<"example.com">>, S3Key(ExistingId, 0), "alice", 0,
                              initCount, IF initCount = 0 THEN NoTime ELSE 0)
                    ELSE NoItem]
    /\ qrScans = {}
    /\ tpc = [t \in Trackers |-> "idle"]
    /\ tkind = [t \in Trackers |-> "none"]
    /\ tid = [t \in Trackers |-> MissingId]
    /\ titem = [t \in Trackers |-> NoItem]
    /\ tnow = [t \in Trackers |-> NoTime]
    /\ tscan = [t \in Trackers |-> FALSE]
    /\ tinc = [t \in Trackers |-> FALSE]
    /\ GenIdle
    /\ production = FALSE
    /\ LimIdle
    /\ AppIdle

NextTrack ==
    \/ \E t \in Trackers, k \in {"graphql", "http"}, i \in TrackIds : TrackGet(t, k, i)
    \/ \E t \in Trackers, o \in {"ok", "errors", "throws"} : GqlTrackScan(t, o)
    \/ \E t \in Trackers, o \in {"ok", "errors", "throws"} : GqlTrackUpdate(t, o)
    \/ \E t \in Trackers, o \in {"ok", "throws"} : HttpTrackScan(t, o)
    \/ \E t \in Trackers, o \in {"ok", "throws"} : HttpTrackUpdate(t, o)
    \/ Tick

SpecTrack == InitTrack /\ [][NextTrack]_vars

(***************************************************************************)
(* Specification of the limiters: checks, resets and sweeps of every       *)
(* instance and identifier, in any order, as time passes.                  *)
(***************************************************************************)
InitLimiter ==
    /\ clock = 0
    /\ qrItems = [i \in Ulids |-> NoItem]
    /\ qrScans = {}
    /\ TrackIdle
    /\ GenIdle
    /\ production = FALSE
    /\ LimIdle
    /\ AppIdle

NextLimiter ==
    \/ \E l \in Limiters : \E id \in Identifiers(l) : LimCheck(l, id)
    \/ \E l \in Limiters : \E id \in Identifiers(l) : LimReset(l, id)
    \/ \E l \in Limiters : LimCleanup(l)
    \/ LimTick

SpecLimiter == InitLimiter /\ [][NextLimiter]_vars

(***************************************************************************)
(* Records as earlier calls left them: a complete record that was scanned  *)
(* once, and a pending record whose image step failed.                     *)
(***************************************************************************)
ScannedItem(id, owner) ==
    Item(SchemeHttps \o <<"example.com">>, S3Key(id, 0), owner, 0, 1, 0)
PendingItem(owner) ==
    Item(SchemeHttps \o <<"other.org">>, NoKey, owner, 0, 0, NoTime)
EarlierScan(id) == ScanRow(id, 0, NoId)

(***************************************************************************)
(* Specification of management: alice and bob each own a record that was   *)
(* scanned; signed-in users and requests without an identity list and      *)
(* delete through the function and through the hook.                       *)
(***************************************************************************)
InitManage ==
    /\ clock = 0
    /\ qrItems = [i \in Ulids |-> IF i = 1 THEN ScannedItem(1, "alice")
                                  ELSE IF i = 2 THEN ScannedItem(2, "bob")
                                  ELSE NoItem]
    /\ qrScans = {EarlierScan(1), EarlierScan(2)}
    /\ TrackIdle
    /\ gpc = [g \in Gens |-> "idle"]
    /\ gowner = [g \in Gens |-> NoOwner]
    /\ gurl = [g \in Gens |-> <<>>]
    /\ gqrid = [g \in Gens |-> NoId]
    /\ gkey = [g \in Gens |-> NoKey]
    /\ gresult = [g \in Gens |-> NoId]
    /\ nextUlid = 3
    /\ s3Objects = {S3Key(1, 0), S3Key(2, 0)}
    /\ production = FALSE
    /\ LimIdle
    /\ AppIdle

NextManage ==
    \/ \E m \in Managers, c \in Users \cup {NoOwner}, i \in Ulids \cup {NoId} :
          DeleteGet(m, c, i)
    \/ \E m \in Managers, o \in {"ok", "throws"} : DeleteItem(m, o)
    \/ \E m \in Managers, c \in Users \cup {NoOwner}, i \in Ulids \cup {NoId} :
          HookDelete(m, c, i)
    \/ \E m \in Managers, c \in Users \cup {NoOwner} : ListQrItems(m, c)
    \/ \E m \in Managers, c \in Users \cup {NoOwner} : FetchQrItems(m, c)

SpecManage == InitManage /\ [][NextManage]_vars

(***************************************************************************)
(* Specification of the guard: requests of every identifier pass           *)
(* withRateLimit on either limiter while time passes and the sweep runs.   *)
(***************************************************************************)
InitGuard == InitLimiter

NextGuard ==
    \/ \E l \in Limiters : \E id \in Identifiers(l) :
          \E o \in {"ok", "throws"} : WithRateLimit(l, id, o)
    \/ \E l \in Limiters : LimCleanup(l)
    \/ GuardTick

SpecGuard == InitGuard /\ [][NextGuard]_vars

(***************************************************************************)
(* Specification of requests in flight: one limiter, the tracking limiter  *)
(* or a limiter configured with skipFailedRequests; requests of its        *)
(* identifiers pass withRateLimit concurrently while time passes and the   *)
(* sweep runs.                                                             *)
(***************************************************************************)
FlightLimiters == {"qrTrackingLimiter", SkippingLimiter}

InitFlight ==
    /\ clock = 0
    /\ qrItems = [i \in Ulids |-> NoItem]
    /\ qrScans = {}
    /\ TrackIdle
    /\ GenIdle
    /\ production = FALSE
    /\ \E l \in FlightLimiters :
          /\ limStore = [k \in {l} |-> [id \in Identifiers(k) |-> NoEntry]]
          /\ winEnd = [k \in {l} |-> [id \in Identifiers(k) |-> NoTime]]
          /\ winCalls = [k \in {l} |-> [id \in Identifiers(k) |-> 0]]
          /\ winDenied = [k \in {l} |-> [id \in Identifiers(k) |-> FALSE]]
    /\ limResult = NoResult
    /\ AppIdle

NextFlight ==
    \/ \E r \in Requests : \E l \in DOMAIN limStore : \E id \in Identifiers(l) :
          GuardCheck(r, l, id)
    \/ \E r \in Requests, o \in {"ok", "throws"} : GuardFinish(r, o)
    \/ \E l \in DOMAIN limStore : LimCleanup(l)
    \/ FlightTick

SpecFlight == InitFlight /\ [][NextFlight]_vars

(***************************************************************************)
(* Specification of the cache: one MemoryCache, every operation on every   *)
(* key, as time passes.                                                    *)
(***************************************************************************)
InitCache ==
    /\ clock = 0
    /\ qrItems = [i \in Ulids |-> NoItem]
    /\ qrScans = {}
    /\ TrackIdle
    /\ GenIdle
    /\ production = FALSE
    /\ LimIdle
    /\ ManageIdle /\ GuardIdle /\ ServeIdle /\ FlightIdle /\ CallerIdle
    /\ cache = [k \in CacheKeys |-> NoCacheEntry]
    /\ cacheResult = NoCacheResult
    /\ cacheAsked = [k \in CacheKeys |-> 0]

NextCache ==
    \/ \E k \in CacheKeys : CacheGet(k)
    \/ \E k \in CacheKeys, d \in CacheData, ttl \in Ttls, tags \in TagSets :
          CacheSet(k, d, ttl, tags)
    \/ \E k \in CacheKeys : CacheDelete(k)
    \/ \E tags \in SUBSET Tags : InvalidateByTags(tags)
    \/ CacheCleanup
    \/ CacheTick

SpecCache == InitCache /\ [][NextCache]_vars

(***************************************************************************)
(* Specification of the sweeps: the tracking limiter and a MemoryCache in  *)
(* one process; checks, gets and sets come at any time, and the interval   *)
(* timers run both cleanups again and again.                               *)
(***************************************************************************)
SweepKeys == {"k1"}
SweepData == {"v"}

\* Time passes.
SweepTick ==
    /\ clock < MaxLimClock
    /\ clock' = clock + 1
    /\ limResult' = NoResult
    /\ cacheResult' = NoCacheResult
    /\ UNCHANGED <<qrItems, qrScans, trackVars, genVars, limStore, winEnd, winCalls,
                   winDenied, manageVars, guardVars, serveVars, flightVars, cache,
                   cacheAsked, callerVars>>

InitSweep ==
    /\ clock = 0
    /\ qrItems = [i \in Ulids |-> NoItem]
    /\ qrScans = {}
    /\ TrackIdle
    /\ GenIdle
    /\ production = FALSE
    /\ limStore = [l \in {"qrTrackingLimiter"} |-> [id \in Identifiers(l) |-> NoEntry]]
    /\ winEnd = [l \in {"qrTrackingLimiter"} |-> [id \in Identifiers(l) |-> NoTime]]
    /\ winCalls = [l \in {"qrTrackingLimiter"} |-> [id \in Identifiers(l) |-> 0]]
    /\ winDenied = [l \in {"qrTrackingLimiter"} |-> [id \in Identifiers(l) |-> FALSE]]
    /\ limResult = NoResult
    /\ ManageIdle /\ GuardIdle /\ ServeIdle /\ FlightIdle /\ CallerIdle
    /\ cache = [k \in SweepKeys |-> NoCacheEntry]
    /\ cacheResult = NoCacheResult
    /\ cacheAsked = [k \in SweepKeys |-> 0]

NextSweep ==
    \/ \E l \in DOMAIN limStore : \E id \in Identifiers(l) : LimCheck(l, id)
    \/ \E l \in DOMAIN limStore : LimCleanup(l)
    \/ \E k \in SweepKeys : CacheGet(k)
    \/ \E k \in SweepKeys, d \in SweepData, ttl \in Ttls : CacheSet(k, d, ttl, {})
    \/ CacheCleanup
    \/ SweepTick

\* setInterval(() => this.cleanup(), ...) in both constructors: a cleanup
\* that has something to delete is not put off for ever.
SpecSweep ==
    /\ InitSweep /\ [][NextSweep]_vars
    /\ WF_vars(LimCleanup("qrTrackingLimiter"))
    /\ WF_vars(CacheCleanup)

(***************************************************************************)
(* Specification of serving: alice has a complete record (1) and a pending *)
(* record (2); image and download requests and one scan of either kind     *)
(* run against them.                                                       *)
(***************************************************************************)
ServeTrackers == {1}

InitServe ==
    /\ clock = 0
    /\ qrItems = [i \in Ulids |-> IF i = 1 THEN ScannedItem(1, "alice")
                                  ELSE IF i = 2 THEN PendingItem("alice")
                                  ELSE NoItem]
    /\ qrScans = {EarlierScan(1)}
    /\ TrackIdle
    /\ gpc = [g \in Gens |-> "idle"]
    /\ gowner = [g \in Gens |-> NoOwner]
    /\ gurl = [g \in Gens |-> <<>>]
    /\ gqrid = [g \in Gens |-> NoId]
    /\ gkey = [g \in Gens |-> NoKey]
    /\ gresult = [g \in Gens |-> NoId]
    /\ nextUlid = 3
    /\ s3Objects = {S3Key(1, 0)}
    /\ production = FALSE
    /\ LimIdle
    /\ ManageIdle /\ GuardIdle /\ ServeIdle /\ FlightIdle /\ CallerIdle
    /\ cache = [k \in {QrItemKey(i) : i \in Ulids} |-> NoCacheEntry]
    /\ cacheResult = NoCacheResult
    /\ cacheAsked = <<>>

NextServe ==
    \/ \E s \in Serves, i \in Ulids \cup {NoId} : DownloadLookup(s, i)
    \/ \E s \in Serves, o \in {"ok", "throws"} : DownloadSign(s, o)
    \/ \E s \in Serves, i \in Ulids \cup {NoId} : ImageLookup(s, i)
    \/ \E s \in Serves, o \in {"ok", "throws"} : ImageSign(s, o)
    \/ \E t \in ServeTrackers, k \in {"graphql", "http"}, i \in Ulids \cup {NoId} :
          TrackGet(t, k, i)
    \/ \E t \in ServeTrackers, o \in {"ok", "errors", "throws"} : GqlTrackScan(t, o)
    \/ \E t \in ServeTrackers, o \in {"ok", "errors", "throws"} : GqlTrackUpdate(t, o)
    \/ \E t \in ServeTrackers, o \in {"ok", "throws"} : HttpTrackScan(t, o)
    \/ \E t \in ServeTrackers, o \in {"ok", "throws"} : HttpTrackUpdate(t, o)

SpecServe == InitServe /\ [][NextServe]_vars

(***************************************************************************)
(* Specification of read-through: alice has a complete record (1), id 2    *)
(* has none; download requests come while time passes beyond the ttl of a  *)
(* cached record, and alice deletes her record at some point.              *)
(***************************************************************************)
ReadTimes == 0..(QrItemTtl + 1)
ReadManagers == {1}

\* Time passes between and during requests.
ReadTick ==
    /\ clock + 1 \in ReadTimes
    /\ clock' = clock + 1
    /\ UNCHANGED <<qrItems, qrScans, trackVars, genVars, limVars, appVars>>

InitRead ==
    /\ clock = 0
    /\ qrItems = [i \in Ulids |-> IF i = 1 THEN ScannedItem(1, "alice") ELSE NoItem]
    /\ qrScans = {EarlierScan(1)}
    /\ TrackIdle
    /\ gpc = [g \in Gens |-> "idle"]
    /\ gowner = [g \in Gens |-> NoOwner]
    /\ gurl = [g \in Gens |-> <<>>]
    /\ gqrid = [g \in Gens |-> NoId]
    /\ gkey = [g \in Gens |-> NoKey]
    /\ gresult = [g \in Gens |-> NoId]
    /\ nextUlid = 2
    /\ s3Objects = {S3Key(1, 0)}
    /\ production = FALSE
    /\ LimIdle
    /\ ManageIdle /\ GuardIdle /\ ServeIdle /\ FlightIdle /\ CallerIdle
    /\ cache = [k \in {QrItemKey(i) : i \in Ulids} |-> NoCacheEntry]
    /\ cacheResult = NoCacheResult
    /\ cacheAsked = <<>>

NextRead ==
    \/ \E s \in Serves, i \in {1, 2, NoId} : DownloadLookup(s, i)
    \/ \E s \in Serves, o \in {"ok", "throws"} : DownloadSign(s, o)
    \/ \E m \in ReadManagers, c \in Callers, i \in {1} : HookDelete(m, c, i)
    \/ ReadTick

SpecRead == InitRead /\ [][NextRead]_vars

(***************************************************************************)
(* Specification of callers: requests with any of the authorization        *)
(* headers, addresses and methods pass the two middlewares concurrently.   *)
(***************************************************************************)
InitCaller ==
    /\ clock = 0
    /\ qrItems = [i \in Ulids |-> NoItem]
    /\ qrScans = {}
    /\ TrackIdle
    /\ GenIdle
    /\ production = FALSE
    /\ LimIdle
    /\ ManageIdle /\ GuardIdle /\ ServeIdle /\ FlightIdle
    /\ cache = [k \in {getCacheKey(q) : q \in ClientRequests} |-> NoCacheEntry]
    /\ cacheResult = NoCacheResult
    /\ cacheAsked = <<>>
    /\ wpc = [w \in Clients |-> "idle"]
    /\ wreq \in [Clients -> ClientRequests]
    /\ wident = [w \in Clients |-> NoIdentity]
    /\ wresp = [w \in Clients |-> NoReply]

NextCaller ==
    \/ \E w \in Clients : Identify(w)
    \/ \E w \in Clients : WithCacheGet(w)
    \/ \E w \in Clients, status \in {"200", "500"} : WithCacheHandler(w, status)

SpecCaller == InitCaller /\ [][NextCaller]_vars

(***************************************************************************)
(* Specification of a record's life: the table is empty or holds alice's   *)
(* complete record; two generateQr calls, one scan of either kind and one  *)
(* delete by the hook run concurrently.                                    *)
(***************************************************************************)
LifeGens == {1, 2}
LifeManagers == {1}
LifeInputs == {<<"example.com">>}

InitLife ==
    /\ clock = 0
    /\ \/ qrItems = [i \in Ulids |-> NoItem] /\ nextUlid = 1 /\ s3Objects = {}
          /\ qrScans = {}
       \/ /\ qrItems = [i \in Ulids |-> IF i = 1 THEN ScannedItem(1, "alice") ELSE NoItem]
          /\ nextUlid = 2 /\ s3Objects = {S3Key(1, 0)}
          /\ qrScans = {EarlierScan(1)}
    /\ TrackIdle
    /\ gpc = [g \in Gens |-> "idle"]
    /\ gowner = [g \in Gens |-> NoOwner]
    /\ gurl = [g \in Gens |-> <<>>]
    /\ gqrid = [g \in Gens |-> NoId]
    /\ gkey = [g \in Gens |-> NoKey]
    /\ gresult = [g \in Gens |-> NoId]
    /\ production = FALSE
    /\ LimIdle
    /\ AppIdle

NextLife ==
    \/ \E g \in LifeGens, o \in Callers, u \in LifeInputs, f \in Ulids \cup {NoId} :
          GenLookup(g, o, u, f)
    \/ \E g \in LifeGens, r \in {"ok", "errors"} : GenCreate(g, r)
    \/ \E g \in LifeGens, r \in {"ok", "throws"} : GenUpload(g, r)
    \/ \E g \in LifeGens, r \in {"ok", "errors", "throws"} : GenUpdate(g, r)
    \/ GenTick
    \/ \E t \in ServeTrackers, k \in {"graphql", "http"}, i \in Ulids : TrackGet(t, k, i)
    \/ \E t \in ServeTrackers, o \in {"ok", "errors", "throws"} : GqlTrackScan(t, o)
    \/ \E t \in ServeTrackers, o \in {"ok", "errors", "throws"} : GqlTrackUpdate(t, o)
    \/ \E t \in ServeTrackers, o \in {"ok", "throws"} : HttpTrackScan(t, o)
    \/ \E t \in ServeTrackers, o \in {"ok", "throws"} : HttpTrackUpdate(t, o)
    \/ \E m \in LifeManagers, c \in Callers, i \in Ulids : HookDelete(m, c, i)

SpecLife == InitLife /\ [][NextLife]_vars

(***************************************************************************)
(* Properties of tracking.                                                 *)
(***************************************************************************)
InFlight(t) == tpc[t] \in {"scan", "update"}
ScanCount == qrItems[ExistingId].scanCount
Applied(kind) == {t \in Trackers : tkind[t] = kind /\ tinc[t]}

\* C1: when only trackQr calls have run against the record and none is in
\* flight, its scanCount is the value before the calls plus the number of
\* calls whose counter update the store applied.
C1_GqlTrackCountsEveryCall ==
    (/\ \A t \in Trackers : tkind[t] # "http"
     /\ \A t \in Trackers : ~InFlight(t))
        => ScanCount = initCount + Cardinality(Applied("graphql"))

\* C2: when only HTTP track calls run against the record, its scanCount is
\* the value before the calls plus one for every call whose UpdateCommand
\* was applied, whatever the interleaving.
C2_HttpTrackCountsEveryCall ==
    (\A t \in Trackers : tkind[t] # "graphql")
        => ScanCount = initCount + Cardinality(Applied("http"))

\* C2 witness: three HTTP calls have all applied their update, and the last
\* writer is a call that started at time 0 although a call that started at
\* time 1 has written too: the calls overlapped.
C2_Witness ==
    /\ \A t \in Trackers : tkind[t] = "http" /\ tpc[t] = "done" /\ tinc[t]
    /\ qrItems[ExistingId].lastScanAt = 0
    /\ \E r \in qrScans : r.scanAt = 1

\* C7: a track call for an id without a record ends not-found in its first
\* step, that step changes neither table, and the call takes no later step.
C7_NotFoundWritesNothing ==
    [][\A t \in Trackers :
          /\ (/\ tpc[t] = "idle" /\ tpc'[t] # "idle"
              /\ tid'[t] \in DOMAIN qrItems /\ qrItems[tid'[t]] = NoItem)
                => (tpc'[t] = "notfound" /\ UNCHANGED <<qrItems, qrScans>>)
          /\ tpc[t] = "notfound"
                => (tpc'[t] = "notfound" /\ ~tscan'[t] /\ ~tinc'[t])]_vars

\* C7 witness: a trackQr call and an HTTP call have both ended not-found
\* while another call has written its scan and its update.
C7_Witness ==
    /\ \E t \in Trackers : tpc[t] = "notfound" /\ tkind[t] = "graphql"
    /\ \E t \in Trackers : tpc[t] = "notfound" /\ tkind[t] = "http"
    /\ \E t \in Trackers : tpc[t] = "done" /\ tscan[t] /\ tinc[t]

\* C9: no step lowers the stored scanCount, and it is never negative.
C9_ScanCountNeverDecreases ==
    [][ScanCount >= 0 /\ qrItems'[ExistingId].scanCount >= ScanCount]_vars

\* C10: a track call that failed has either written both its scan row and
\* its increment, or neither.
C10_FailedTrackLeavesNoPartialState ==
    \A t \in Trackers : tpc[t] = "failed" => (tscan[t] <=> tinc[t])

\* The scanAt values of the record's scan rows.
ScanTimes == {r.scanAt : r \in {q \in qrScans : q.qrId = ExistingId}}

\* C27: lastScanAt is null exactly while scanCount is 0; and when no track
\* call is in flight and every call that wrote a scan row also had its
\* counter update applied, lastScanAt is the greatest scanAt of the
\* record's scan rows.
C27_LastScanAtIsLatestScan ==
    /\ qrItems[ExistingId].lastScanAt = NoTime <=> ScanCount = 0
    /\ (/\ \A t \in Trackers : ~InFlight(t)
        /\ \A t \in Trackers : tscan[t] <=> tinc[t]
        /\ ScanTimes # {})
           => \A at \in ScanTimes : at <= qrItems[ExistingId].lastScanAt

(***************************************************************************)
(* Properties of generation.                                               *)
(***************************************************************************)
Stored == {i \in Ulids : qrItems[i] # NoItem}
SamePair(i, j) ==
    qrItems[i].owner = qrItems[j].owner /\ qrItems[i].targetUrl = qrItems[j].targetUrl
Starts(g) == gpc[g] = "idle" /\ gpc'[g] # "idle"

\* C3: a generateQr call that starts after a call of the same owner for the
\* same destination has completed its record yields that record's id, and
\* completed calls of one owner for different destinations have different
\* ids.
C3_SequentialGenerateIsIdempotent ==
    [][\A g, h \in Gens :
          /\ (/\ gpc[g] = "done" /\ qrItems[gresult[g]].s3Key # NoKey /\ Starts(h)
              /\ gowner'[h] = gowner[g] /\ gurl'[h] = gurl[g])
                => (gpc'[h] = "done" /\ gresult'[h] = gresult[g])
          /\ (/\ gpc[g] = "done" /\ gpc[h] = "done"
              /\ gowner[h] = gowner[g] /\ gurl[h] # gurl[g])
                => gresult[h] # gresult[g]]_vars

\* C4: when every stored record was created by the calls at hand, at most
\* one record is stored for an (owner, destination) pair, and every call that
\* completed for that pair has that record's id.
C4_ConcurrentGenerateKeepsOneRecord ==
    (\A i \in Stored : qrItems[i].owner \in Callers)
        => /\ \A i, j \in Stored : SamePair(i, j) => i = j
           /\ \A g, h \in Gens :
                 (/\ gpc[g] = "done" /\ gpc[h] = "done"
                  /\ gowner[g] = gowner[h] /\ gurl[g] = gurl[h])
                    => gresult[g] = gresult[h]

\* C5: a generateQr call whose destination validation rejects ends in the
\* error outcome, and the store then holds no record created by the call.
C5_RejectedDestinationPersistsNothing ==
    \A g \in Gens :
        (gpc[g] \in {"done", "error"} /\ gowner[g] # NoOwner
         /\ ValidateTargetUrl(gurl[g], production) # "ok")
            => /\ gpc[g] = "error"
               /\ gqrid[g] = NoId \/ qrItems[gqrid[g]] = NoItem

\* C6: a dedup lookup never returns a record that has an empty s3Key and
\* whose creating call has ended (failed in the image step or the s3Key
\* update).
C6_PendingRecordNeverReturned ==
    [][\A h \in Gens :
          (Starts(h) /\ gpc'[h] = "done")
              => \A g \in Gens :
                    (gqrid[g] = gresult'[h] /\ gpc[g] \in {"error", "done"})
                        => qrItems[gresult'[h]].s3Key # NoKey]_vars

(***************************************************************************)
(* Properties of the limiters.                                             *)
(***************************************************************************)
\* C8: for every limiter and identity, a check is allowed exactly when it is
\* among the first maxRequests checks of its window, it reports the end of
\* that window, and a check made after the end of the window (or the first
\* one) is allowed and starts a window that ends windowMs later.
C8_FirstNAllowedThenDeniedUntilWindowEnds ==
    limResult # NoResult =>
        LET l == limResult.limiter
            id == limResult.identifier IN
        /\ limResult.allowed <=> winCalls[l][id] <= maxRequests(l)
        /\ limResult.resetTime = winEnd[l][id]
        /\ winCalls[l][id] = 1 =>
              (limResult.allowed /\ limResult.resetTime = clock + windowMs(l))

\* C8 witness: an identity was denied in an earlier window, no reset came in
\* between, and the check just made is the first of a new window and allowed.
C8_Witness ==
    /\ limResult # NoResult
    /\ winDenied[limResult.limiter][limResult.identifier]
    /\ winCalls[limResult.limiter][limResult.identifier] = 1
    /\ limResult.allowed

\* The step is a check: only a check leaves a result.
Checked == limResult' # NoResult
\* The step is reset(id) on limiter l: only reset empties the history of
\* an identifier that was checked.
WasReset(l, id) == winCalls[l][id] > 0 /\ winCalls'[l][id] = 0
\* The entries the step changes.
ChangedEntries ==
    {p \in {<<l, id>> : l \in Limiters, id \in {"user:a", "ip:b"}} :
        p[2] \in Identifiers(p[1]) /\ limStore'[p[1]][p[2]] # limStore[p[1]][p[2]]}

\* C23: the check that opens a window (no entry, or now > resetTime) leaves
\* the entry (1, now + windowMs); every other check leaves resetTime as it
\* was and a denied check leaves the entry as it was; every entry has a
\* count from 1 to maxRequests; an allowed check returns maxRequests minus
\* the count it leaves as remaining, a denied check returns 0.
C23_FixedWindowBookkeeping ==
    [][/\ Checked =>
             LET l == limResult'.limiter
                 id == limResult'.identifier
                 old == limStore[l][id]
                 new == limStore'[l][id] IN
             /\ IF old = NoEntry \/ clock > old.resetTime
                THEN new = [count |-> 1, resetTime |-> clock + windowMs(l)]
                ELSE new.resetTime = old.resetTime
             /\ ~limResult'.allowed => new = old
             /\ limResult'.remaining =
                   IF limResult'.allowed THEN maxRequests(l) - new.count ELSE 0
             /\ limResult'.remaining >= 0
             /\ limResult'.resetTime = new.resetTime
       /\ \A l \in Limiters : \A id \in Identifiers(l) :
             limStore'[l][id] # NoEntry =>
                 /\ limStore'[l][id].count >= 1
                 /\ limStore'[l][id].count <= maxRequests(l)]_vars

\* C23 witness: a check at the last moment of a window that was opened
\* earlier is denied, the window being full.
C23_Witness ==
    /\ limResult # NoResult /\ ~limResult.allowed
    /\ limResult.resetTime = clock
    /\ maxRequests(limResult.limiter) > 1
    /\ limStore[limResult.limiter][limResult.identifier] =
          [count |-> maxRequests(limResult.limiter), resetTime |-> clock]

\* C24: a check changes at most the entry of its identifier on its
\* limiter; reset(id) removes the entry of id on its limiter and changes
\* no other; hence the result the next check of any other identifier or
\* limiter would get is as before.
C24_LimiterStateIsPerIdentityAndInstance ==
    [][/\ Checked =>
             ChangedEntries \subseteq {<<limResult'.limiter, limResult'.identifier>>}
       /\ \A l \in Limiters : \A id \in Identifiers(l) :
             WasReset(l, id) =>
                 /\ limStore'[l][id] = NoEntry
                 /\ ChangedEntries = {<<l, id>>}
       /\ (Checked \/ \E l \in Limiters : \E id \in Identifiers(l) : WasReset(l, id))
             => \A l \in Limiters : \A id \in Identifiers(l) :
                   <<l, id>> \notin ChangedEntries =>
                       CheckResult(l, id, limStore'[l][id], clock')
                           = CheckResult(l, id, limStore[l][id], clock)]_vars

\* C24 witness: a check of one identifier has just filled its window while
\* another identifier of the same limiter holds a full window that ends at
\* another time, and the same identifier holds an entry on the other limiter.
C24_Witness ==
    /\ limResult.limiter = "qrTrackingLimiter" /\ limResult.identifier = "user:a"
    /\ limResult.allowed /\ limResult.remaining = 0
    /\ limStore["qrTrackingLimiter"]["ip:b"] # NoEntry
    /\ limStore["qrTrackingLimiter"]["ip:b"].count = maxRequests("qrTrackingLimiter")
    /\ limStore["qrTrackingLimiter"]["ip:b"].resetTime # limResult.resetTime
    /\ limStore["qrTrackingLimiter"]["ip:b"].resetTime >= clock
    /\ limStore["qrGenerationLimiter"]["user:a"] # NoEntry

(***************************************************************************)
(* Properties of management.                                               *)
(***************************************************************************)
Ends(m) == mpc[m] # "done" /\ mpc'[m] = "done"
Removed == {i \in DOMAIN qrItems : qrItems[i] # NoItem /\ qrItems'[i] = NoItem}

\* C11: a delete request (through the function or the hook) for a stored
\* record by a caller who is not its owner, a request without an identity
\* included, ends with an authorization error and the record stays.
C11_OnlyOwnerDeletes ==
    [][\A m \in Managers :
          (/\ Ends(m) /\ mid'[m] # NoId /\ qrItems[mid'[m]] # NoItem
           /\ mcaller'[m] # qrItems[mid'[m]].owner)
              => /\ mresult'[m].status = "unauthorized"
                 /\ qrItems'[mid'[m]] = qrItems[mid'[m]]]_vars

\* C12: every record a list request returns (through the function or the
\* hook) is owned by the caller of the request.
C12_ListReturnsOwnRecords ==
    [][\A m \in Managers :
          (Ends(m) /\ mresult'[m].status = "listed")
              => \A i \in mresult'[m].ids : qrItems[i].owner = mcaller'[m]]_vars

\* C18: a step that removes a record removes that record only and leaves
\* the set of scan rows as it was.
C18_DeleteDoesNotCascade ==
    [][Removed # {} =>
          /\ Cardinality(Removed) = 1
          /\ \A i \in DOMAIN qrItems : i \notin Removed => qrItems'[i] = qrItems[i]
          /\ qrScans' = qrScans]_vars

\* C18 witness: a delete request has ended with the record removed, through
\* the function and through the hook, and the scan rows of the removed
\* records are still stored.
C18_Witness ==
    /\ \E m, n \in Managers :
          /\ m # n
          /\ mresult[m].status = "deleted" /\ mresult[n].status = "deleted"
          /\ mcaller[m] = NoOwner /\ mcaller[n] # NoOwner
    /\ \A r \in {EarlierScan(1), EarlierScan(2)} :
          r \in qrScans /\ qrItems[r.qrId] = NoItem

(***************************************************************************)
(* Properties of the routes and their guard.                               *)
(***************************************************************************)
\* The scan rows that HTTP track requests wrote with a time in the window
\* that starts at w.
HttpScansInWindow(w) ==
    {r \in qrScans : /\ r.call \in Trackers /\ tkind[r.call] = "http"
                     /\ r.scanAt >= w
                     /\ r.scanAt <= w + windowMs("qrTrackingLimiter")}

\* C13: the HTTP track requests at hand being one client's, no window of
\* the tracking limiter holds more scan rows of theirs than the limiter
\* allows requests: a request beyond the limit is refused before it writes.
C13_ExhaustedCallerWritesNothing ==
    \A w \in 0..MaxClock :
        Cardinality(HttpScansInWindow(w)) <= maxRequests("qrTrackingLimiter")

\* C14: a withRateLimit request runs the handler exactly when its check is
\* allowed; a denied request is answered 429 with the end of the window as
\* its reset time and the time left until then as Retry-After, and it leaves
\* the limiter's store as it was.
C14_DeniedRequestNeverRunsHandler ==
    [][limResult' # NoResult =>
          LET c == limResult'
              r == guardResponse' IN
          /\ r.handled <=> c.allowed
          /\ ~c.allowed =>
                /\ r.status = "429"
                /\ r.reset = c.resetTime
                /\ r.reset = winEnd'[c.limiter][c.identifier]
                /\ r.retryAfter = r.reset - clock'
                /\ r.retryAfter >= 0
                /\ limStore' = limStore]_vars

\* C14 witness: a request was answered 429 some time before the window
\* ends, after the identity had requests handled in that window.
C14_Witness ==
    /\ guardResponse.status = "429"
    /\ ~guardResponse.handled
    /\ guardResponse.retryAfter > 0
    /\ clock > 0
    /\ limStore[limResult.limiter][limResult.identifier].count
          = maxRequests(limResult.limiter)

(***************************************************************************)
(* Properties of requests in flight.                                       *)
(***************************************************************************)
\* The requests whose handler was started after a check of identifier id
\* on limiter l in the window that ends at e.
StartedIn(l, id, e) ==
    {r \in Requests : /\ rpc[r] \in {"handler", "done", "failed"}
                      /\ rlim[r] = l /\ rident[r] = id /\ rwin[r] = e}

\* C21: on a limiter configured with skipFailedRequests, when the handler
\* of a request fails while the window it was charged in is current and
\* holds other charges, the entry keeps its resetTime and its count goes
\* down by one.
C21_FailureUndoesOwnChargeOnly ==
    [][\A r \in Requests :
          LET l == rlim[r]
              id == rident[r]
              e == limStore[l][id] IN
          (/\ rpc[r] = "handler" /\ rpc'[r] = "failed" /\ skipFailedRequests(l)
           /\ e # NoEntry /\ e.resetTime = rwin[r] /\ e.count > 1)
              => limStore'[l][id] = [e EXCEPT !.count = e.count - 1]]_vars

\* C22: on a limiter without skipFailedRequests, the handlers started for
\* one identifier in one window are at most maxRequests, however the
\* requests overlap.
C22_AtMostNHandlersPerWindow ==
    \A l \in DOMAIN limStore : \A id \in Identifiers(l) : \A e \in 0..(MaxLimClock + windowMs(l)) :
        ~skipFailedRequests(l) => Cardinality(StartedIn(l, id, e)) <= maxRequests(l)

\* C22 witness: maxRequests handlers of one identifier were started in one
\* window and are all still in flight, a further request of that identifier
\* was denied in that window, and the last moment of the window has come.
C22_Witness ==
    \E l \in DOMAIN limStore : \E id \in Identifiers(l) : \E r \in Requests :
        /\ ~skipFailedRequests(l)
        /\ rpc[r] = "denied" /\ rlim[r] = l /\ rident[r] = id
        /\ rwin[r] = clock /\ clock > 0
        /\ Cardinality(StartedIn(l, id, rwin[r])) = maxRequests(l)
        /\ \A q \in StartedIn(l, id, rwin[r]) : rpc[q] = "handler"

(***************************************************************************)
(* Properties of the cache.                                                *)
(***************************************************************************)
\* C15: a get of a key that holds an entry returns the entry's value while
\* now <= writtenAt + ttl, ttl being the value set was called with, and
\* returns null and removes the entry once now > writtenAt + ttl.
C15_GetHonoursTtl ==
    [][(cacheResult'.op = "get" /\ cache[cacheResult'.key] # NoCacheEntry) =>
          LET k == cacheResult'.key
              e == cache[k] IN
          IF clock <= e.timestamp + cacheAsked[k]
          THEN cacheResult'.value = e.data /\ cache'[k] = e
          ELSE cacheResult'.value = Null /\ cache'[k] = NoCacheEntry]_vars

\* C16: invalidateByTags(tags) removes the entries whose tag set shares a
\* tag with tags and no other, leaves every other entry as it was (value,
\* time, ttl and tags), and returns the number of entries removed.
C16_InvalidateRemovesExactlyTagged ==
    [][cacheResult'.op = "invalidate" =>
          LET hit == {k \in DOMAIN cache :
                         cache[k] # NoCacheEntry
                         /\ cache[k].tags \cap cacheResult'.tags # {}} IN
          /\ \A k \in DOMAIN cache :
                cache'[k] = IF k \in hit THEN NoCacheEntry ELSE cache[k]
          /\ cacheResult'.count = Cardinality(hit)]_vars

\* C16 witness: an invalidation by one tag has just removed an entry and
\* left an entry that carries only another tag.
C16_Witness ==
    /\ cacheResult.op = "invalidate"
    /\ cacheResult.count = 1
    /\ cacheResult.tags = {"user:42"}
    /\ \E k \in CacheKeys :
          /\ cache[k] # NoCacheEntry
          /\ cache[k].tags # {}
          /\ cache[k].tags \cap cacheResult.tags = {}

(***************************************************************************)
(* Properties of the sweeps.                                               *)
(***************************************************************************)
\* A store and a cache as their callers see them: without the entries that
\* have expired.
LiveLimEntry(entry, now) ==
    IF entry # NoEntry /\ now > entry.resetTime THEN NoEntry ELSE entry
LiveCache(c, now) ==
    [k \in DOMAIN c |->
        IF c[k] # NoCacheEntry /\ now > c[k].timestamp + c[k].ttl
        THEN NoCacheEntry ELSE c[k]]
DeadLim(l, id) ==
    limStore[l][id] # NoEntry /\ clock > limStore[l][id].resetTime
DeadCache(k) ==
    cache[k] # NoCacheEntry /\ clock > cache[k].timestamp + cache[k].ttl

\* The step is a check, a get, a sweep of a limiter, a sweep of the cache.
CheckStep == limResult' # NoResult /\ limVars' # limVars
GetStep == cacheResult'.op = "get" /\ cacheVars' # cacheVars
LimSweepStep == limStore' # limStore /\ limResult' = NoResult
CacheSweepStep == cache' # cache /\ cacheResult' = NoCacheResult

\* C25: a sweep of a limiter leaves the store without exactly its expired
\* entries, a sweep of the cache likewise; a check returns and leaves what
\* it would on the store without its expired entries, a get returns what
\* it would on the cache without its expired entries and changes no live
\* entry; and an entry that has expired is in the end removed or replaced.
C25_SweepsAreInvisibleAndComplete ==
    /\ [][/\ LimSweepStep =>
                \A l \in DOMAIN limStore : \A id \in Identifiers(l) :
                    limStore'[l][id] = LiveLimEntry(limStore[l][id], clock)
          /\ CacheSweepStep => cache' = LiveCache(cache, clock)
          /\ CheckStep =>
                LET l == limResult'.limiter
                    id == limResult'.identifier
                    live == LiveLimEntry(limStore[l][id], clock) IN
                /\ limResult' = CheckResult(l, id, live, clock)
                /\ limStore'[l][id] = CheckEntry(l, live, clock)
          /\ GetStep =>
                /\ cacheResult'.value =
                      CacheValueOf(LiveCache(cache, clock), cacheResult'.key, clock)
                /\ LiveCache(cache', clock) = LiveCache(cache, clock)]_vars
    /\ \A l \in {"qrTrackingLimiter"} : \A id \in Identifiers(l) :
          DeadLim(l, id) ~> ~DeadLim(l, id)
    /\ \A k \in SweepKeys : DeadCache(k) ~> ~DeadCache(k)

\* C25 witness: the sweeps have removed an expired window and an expired
\* cache entry that nobody had asked for again: the history still has the
\* window and the ttl of the set, the store and the cache have nothing, and
\* no get has come since the entry, set at 0, expired.
C25_Witness ==
    /\ clock = 2
    /\ \E id \in Identifiers("qrTrackingLimiter") :
          /\ limStore["qrTrackingLimiter"][id] = NoEntry
          /\ winEnd["qrTrackingLimiter"][id] # NoTime
          /\ winEnd["qrTrackingLimiter"][id] < clock
    /\ cache["k1"] = NoCacheEntry
    /\ cacheAsked["k1"] = 1
    /\ cacheResult = NoCacheResult
    /\ limResult = NoResult

(***************************************************************************)
(* Properties of serving.                                                  *)
(***************************************************************************)
Pending(id) == qrItems[id] # NoItem /\ qrItems[id].s3Key = NoKey

\* C17: when a track call completes with its counter update applied, the
\* cache holds no record entry for the id it tracked.
C17_TrackInvalidatesCachedRecord ==
    [][\A t \in Trackers :
          (tpc[t] = "update" /\ tpc'[t] = "done" /\ tinc'[t])
              => cache'[QrItemKey(tid[t])] = NoCacheEntry]_vars

\* C20: an image or download request for an id without a record or with a
\* pending record is answered 404, a request for a complete record is
\* answered with the signed reference (or 500 when storage fails), and no
\* track call of a pending record ends with the redirect.
C20_PendingRecordNeverResolves ==
    /\ \A s \in Serves :
          (spc[s] = "done" /\ sid[s] # NoId) =>
              IF qrItems[sid[s]] = NoItem \/ Pending(sid[s])
              THEN sresult[s] = "404"
              ELSE sresult[s] \in {"200", "302", "500"}
    /\ \A t \in Trackers :
          (tpc[t] = "done" /\ tid[t] # NoId) => ~Pending(tid[t])

(***************************************************************************)
(* Properties of read-through.                                             *)
(***************************************************************************)
\* Request s takes its first step as a download of a given id.
Looks(s) == spc[s] = "idle" /\ spc'[s] # "idle" /\ skind'[s] = "download" /\ sid'[s] # NoId

C29_DeletedRecordIsNotServedFromCache ==
    [][\A s \in Serves :
          (Looks(s) /\ qrItems[sid'[s]] = NoItem)
              => (spc'[s] = "done" /\ sresult'[s] = "404")]_vars

(***************************************************************************)
(* Properties of callers.                                                  *)
(***************************************************************************)
\* Two requests carry different authorization tokens.
OtherCaller(a, b) ==
    /\ wreq[a].authorization # NoHeader /\ wreq[b].authorization # NoHeader
    /\ wreq[a].authorization # wreq[b].authorization

\* C30: requests that carry different authorization tokens get different
\* rate-limit identities and, having passed withCache with the same method
\* and path, different cache keys; and a request that carries a token is
\* answered by withCache with a response that was made for its own token.
C30_CallersAreSeparated ==
    /\ \A a, b \in Clients :
          OtherCaller(a, b) =>
              /\ (wident[a] # NoIdentity /\ wident[b] # NoIdentity)
                    => wident[a] # wident[b]
              /\ (/\ wpc[a] \in {"handler", "done"} /\ wpc[b] \in {"handler", "done"}
                  /\ wreq[a].method = wreq[b].method
                  /\ wreq[a].pathname = wreq[b].pathname)
                    => getCacheKey(wreq[a]) # getCacheKey(wreq[b])
    /\ \A a \in Clients :
          (wpc[a] = "done" /\ wreq[a].authorization # NoHeader)
              => wresp[a].body = wreq[a].authorization

(***************************************************************************)
(* Properties of a record's life.                                          *)
(***************************************************************************)
Kept == {i \in DOMAIN qrItems : qrItems[i] # NoItem /\ qrItems'[i] # NoItem}

\* C19: no step changes the targetUrl or the createdAt of a record stored
\* under an id; a step of a track call changes at most scanCount and
\* lastScanAt of a stored record, the s3Key update of generateQr changes at
\* most s3Key, and a dedup hit changes neither table nor the bucket.
C19_DestinationAndCreationTimeFixed ==
    [][/\ \A i \in Kept :
             /\ qrItems'[i].targetUrl = qrItems[i].targetUrl
             /\ qrItems'[i].createdAt = qrItems[i].createdAt
       /\ (\E t \in Trackers : tpc[t] \in {"idle", "scan", "update"} /\ tpc'[t] # tpc[t])
             => \A i \in Kept :
                   qrItems'[i] = [qrItems[i] EXCEPT
                                     !.scanCount = qrItems'[i].scanCount,
                                     !.lastScanAt = qrItems'[i].lastScanAt]
       /\ (\E g \in Gens : gpc[g] = "update" /\ gpc'[g] # "update")
             => \A i \in Kept :
                   qrItems'[i] = [qrItems[i] EXCEPT !.s3Key = qrItems'[i].s3Key]
       /\ (\E g \in Gens : Starts(g) /\ gpc'[g] = "done")
             => UNCHANGED <<qrItems, qrScans, s3Objects>>]_vars

\* C28: once a delete request has ended with the record removed, the table
\* has no item under that id; and every item in the table has a
\* destination.
C28_DeletedRecordStaysDeleted ==
    /\ \A m \in Managers :
          mresult[m].status = "deleted" => qrItems[mid[m]] = NoItem
    /\ \A i \in DOMAIN qrItems :
          qrItems[i] # NoItem => qrItems[i].targetUrl # <<>>

\* C19 witness: a call created and completed a record, a second call got it
\* as a dedup hit, and a scan at a later time has raised its counter.
C19_Witness ==
    \E g, h \in Gens :
        /\ gpc[g] = "done" /\ gqrid[g] # NoId /\ gresult[g] = gqrid[g]
        /\ gpc[h] = "done" /\ gqrid[h] = NoId /\ gresult[h] = gqrid[g]
        /\ qrItems[gqrid[g]] # NoItem
        /\ qrItems[gqrid[g]].s3Key # NoKey
        /\ qrItems[gqrid[g]].scanCount = 1
        /\ qrItems[gqrid[g]].lastScanAt > qrItems[gqrid[g]].createdAt

====
